---------------------------- MODULE Spec2Model ----------------------------
(***************************************************************************)
(* A model of pylogic's propositional engine (src/pylogic/propositional.py):*)
(* the formula model, to_cnf, the CNF parser, CnfClause.resolve, the        *)
(* resolution knowledge base with pl_resolution, and dpll_satisfiable.      *)
(*                                                                          *)
(* A formula is a record: a literal [op |-> "VAR", id, neg] (Variable, with *)
(* neg its is_negated flag) or a connective [op, lhs, rhs] with op one of   *)
(* "AND", "OR", "COND", "BICOND" (Operator).  A CnfClause is the set of its *)
(* literals.  Python's iteration order over a set is not fixed by the code  *)
(* (string hashes are randomised per process), so every loop over a set is  *)
(* modelled as a choice of any order.                                       *)
(***************************************************************************)
EXTENDS Naturals, Integers, FiniteSets, Sequences, TLC

VARIABLES
    pc,          \* position of the running call
    phi,         \* the formula handed to to_cnf / dpll_satisfiable
    cnf,         \* the formula to_cnf returned
    parsed,      \* the set of CnfClauses CnfParser().parse returned
    result,      \* what the finished call returned or raised
    c1,          \* the literals held by the CnfClause resolve is called on
    c2,          \* the literals held by the CnfClause passed to resolve
    literal,     \* the literal passed to resolve
    held,        \* the literals c1 and c2 held when resolve was called
    kb,          \* ResolutionKB.clauses: the stored set of CnfClauses
    added,       \* history: the clauses of everything handed to the KB
    models,      \* history: the assignments satisfying everything handed to it
    alpha,       \* pl_resolution: the query formula
    maxit,       \* pl_resolution: the iteration limit
    kbq,         \* pl_resolution: the clauses of its local copy of the KB
    interesting, \* pl_resolution: interesting_clauses.clauses
    new_knowledge,   \* pl_resolution: new_knowledge.clauses
    res,         \* pl_resolution: the local res (unbound before its first assignment)
    pending,     \* pl_resolution: clauses of new_knowledge the pass has yet to examine
    added_knowledge, \* pl_resolution: the flag of the pass
    it,          \* pl_resolution: the pass counter
    stack,       \* dpll: the calls yet to run, the running one first
    previously_seen, \* dpll: the set previously_seen all its calls share
    negated,     \* ~F of the formula F in phi
    twice,       \* ~(~F)
    unify_x,     \* unify: the argument x of the last call
    unify_y,     \* unify: the argument y of the last call
    theta_in,    \* unify: the substitution passed to the last call
    subst,       \* unify: the substitution the caller holds, the last one returned
    ctor_antecedents, \* HornClauseFOL: the antecedents given to the constructor
    ctor_consequent,  \* HornClauseFOL: the consequent given to the constructor
    hc,          \* the clause constructed last, or the exception raised
    hc_other,    \* the clause constructed before it
    equal,       \* hc == hc_other, once compared
    chain_kb,    \* fol_bc_ask, fol_fc_ask: the list of Horn clauses kb
    goals,       \* fol_bc_ask: the list of goals
    answers,     \* fol_bc_ask, fol_fc_ask: what the call returned
    fc_alpha,    \* fol_fc_ask: the query alpha
    known_facts, \* fol_fc_ask: the list known_facts
    new_facts,   \* fol_fc_ask: the list new of the pass that ended last
    passes,      \* fol_fc_ask: passes of the while loop that have ended
    std_counter, \* standardize_variables: the counter passed in
    std_out,     \* standardize_variables: the clause and the counter returned
    op_s1,       \* the mapping held by the Substitution an operation is called on
    op_s2,       \* the mapping passed to it, or held by the Substitution passed
    op_out,      \* the mapping held by the Substitution the operation returned
    store_class, \* the class of the KB object: ResolutionKB or DpllKB
    dkb,         \* DpllKB.clauses: the stored list of formulas
    dput,        \* history: the formulas add has appended to the DpllKB
    last_query,  \* history: the last query and its result, with no add since
    set_order    \* the order in which this process iterates its sets

cnfVars == <<phi, cnf, parsed>>
resolveVars == <<c1, c2, literal, held>>
storeVars == <<kb, added, models>>
queryVars == <<alpha, maxit, kbq, interesting, new_knowledge, res, pending,
               added_knowledge, it>>
kbVars == <<storeVars, queryVars>>
dpllVars == <<stack, previously_seen>>
invertVars == <<negated, twice>>
unifyVars == <<unify_x, unify_y, theta_in, subst>>
hornVars == <<ctor_antecedents, ctor_consequent, hc, hc_other, equal>>
chainVars == <<chain_kb, goals, answers, fc_alpha, known_facts, new_facts,
               passes>>
frameVars == <<store_class, dkb, dput, last_query, set_order>>
laterVars == <<std_counter, std_out, op_s1, op_s2, op_out, frameVars>>
restVars == <<invertVars, unifyVars, hornVars, chainVars, laterVars>>

vars == <<pc, result, cnfVars, resolveVars, kbVars, dpllVars, laterVars, restVars>>

---------------------------------------------------------------------------
(* Bounds of the model.                                                    *)

\* most leaves (literal occurrences) of a formula handed to to_cnf
MaxLeaves == 5
\* most Cond/Bicond nodes of a formula handed to to_cnf
MaxArrows == 1

\* identifiers of the formulas handed to to_cnf
CnfSymbols == {"A"}

\* identifiers of the clauses handed to resolve
ResolveSymbols == {"A", "B", "C"}

\* identifiers of the clauses and formulas handed to a knowledge base
KBSymbols == {"A", "B"}

\* identifiers of the sentences handed to dpll_satisfiable
DpllSymbols == {"A", "B", "C"}

\* most variable occurrences of a sentence handed to dpll_satisfiable
MaxDpllLeaves == 3

\* most variable occurrences of a CNF formula handed to the parser
MaxParseLeaves == 4

\* most variable occurrences of a formula negated twice
MaxInvertLeaves == 3

\* the longest term list handed to unify
MaxUnifyLen == 2

\* most antecedents handed to the constructor of a Horn clause
MaxAntecedents == 2

\* most Horn clauses in the list handed to a chaining procedure
MaxChainKB == 4

\* most passes of the loop of fol_fc_ask that are followed
MaxPasses == 2

\* most clauses a knowledge base is let grow to
MaxKBSize == 3
\* most items of a list or set handed to add
MaxListLen == 2
\* largest iteration limit handed to pl_resolution besides its default
MaxMaxit == 2
\* the default of pl_resolution's maxit
DefaultMaxit == 1000

---------------------------------------------------------------------------
(* The formula model: class Variable and the four connective classes.      *)

Variable(identifier, is_negated) ==
    [op |-> "VAR", id |-> identifier, neg |-> is_negated]

OrClause(l, r) == [op |-> "OR", lhs |-> l, rhs |-> r]

AndClause(l, r) == [op |-> "AND", lhs |-> l, rhs |-> r]

CondClause(l, r) == [op |-> "COND", lhs |-> l, rhs |-> r]

BicondClause(l, r) == [op |-> "BICOND", lhs |-> l, rhs |-> r]

\* Operator.NONE: the OP of the abstract Clause, used for "no formula yet"
NoClause == [op |-> "NONE"]

\* Variable.lhs and Variable.rhs return the variable itself
Lhs(f) == IF f.op = "VAR" THEN f ELSE f.lhs

Rhs(f) == IF f.op = "VAR" THEN f ELSE f.rhs

\* __invert__ of each class
RECURSIVE Invert(_)
\* a negation of Or that forgets to negate the right operand
Invert_or_half(f) ==
    IF f.op = "VAR" THEN Variable(f.id, ~f.neg)
    ELSE IF f.op = "OR" THEN AndClause(Invert(f.lhs), f.rhs)
    ELSE IF f.op = "AND" THEN OrClause(Invert(f.lhs), Invert(f.rhs))
    ELSE IF f.op = "COND" THEN AndClause(f.lhs, Invert(f.rhs))
    ELSE OrClause(AndClause(f.lhs, Invert(f.rhs)),
                  AndClause(f.rhs, Invert(f.lhs)))

Invert(f) ==
    IF f.op = "VAR" THEN Variable(f.id, ~f.neg)
    ELSE IF f.op = "OR" THEN AndClause(Invert(f.lhs), Invert(f.rhs))
    ELSE IF f.op = "AND" THEN OrClause(Invert(f.lhs), Invert(f.rhs))
    ELSE IF f.op = "COND" THEN AndClause(f.lhs, Invert(f.rhs))
    ELSE OrClause(AndClause(f.lhs, Invert(f.rhs)),
                  AndClause(f.rhs, Invert(f.lhs)))

_is_simple_clause(f) ==
    Lhs(f).op = "VAR" /\ Rhs(f).op = "VAR" /\ f.op # "VAR"

_is_variable(f) == f.op = "VAR"

---------------------------------------------------------------------------
(* to_cnf and _distribute_clauses, branch by branch as in the source.      *)

RECURSIVE _distribute_clauses(_, _)
_distribute_clauses(p, q) ==
    \* Base cases
    IF _is_variable(p) /\ _is_simple_clause(q) THEN
        IF q.op = "AND"
        THEN AndClause(OrClause(Lhs(p), Lhs(q)), OrClause(Lhs(p), Rhs(q)))
        ELSE OrClause(OrClause(Lhs(p), Lhs(q)), Rhs(q))
    ELSE IF _is_variable(q) /\ _is_simple_clause(p) THEN
        IF p.op = "AND"
        THEN AndClause(OrClause(Lhs(p), Lhs(q)), OrClause(Rhs(p), Lhs(q)))
        ELSE OrClause(OrClause(Lhs(p), Rhs(p)), Lhs(q))
    ELSE IF _is_variable(p) /\ _is_variable(q) THEN
        OrClause(p, q)
    ELSE IF _is_simple_clause(p) /\ _is_simple_clause(q) THEN
        IF p.op = "AND" /\ q.op = "AND" THEN
            AndClause(AndClause(AndClause(OrClause(Lhs(p), Lhs(q)),
                                          OrClause(Lhs(p), Rhs(q))),
                                OrClause(Rhs(p), Lhs(q))),
                      OrClause(Rhs(p), Rhs(q)))
        ELSE IF p.op = "AND" THEN
            AndClause(OrClause(OrClause(Lhs(p), Lhs(q)), Rhs(q)),
                      OrClause(OrClause(Rhs(p), Lhs(q)), Rhs(q)))
        ELSE IF q.op = "AND" THEN
            AndClause(OrClause(OrClause(Lhs(p), Rhs(p)), Lhs(q)),
                      OrClause(OrClause(Lhs(p), Rhs(p)), Rhs(q)))
        ELSE OrClause(OrClause(OrClause(Lhs(p), Rhs(p)), Lhs(q)), Rhs(q))
    \* Recursion
    ELSE IF _is_variable(p) THEN
        IF q.op = "AND"
        THEN AndClause(_distribute_clauses(Lhs(p), Lhs(q)),
                       _distribute_clauses(Lhs(p), Rhs(q)))
        ELSE OrClause(p, _distribute_clauses(Lhs(q), Rhs(q)))
    ELSE IF _is_variable(q) THEN
        IF p.op = "AND"
        THEN AndClause(_distribute_clauses(Lhs(p), Lhs(q)),
                       _distribute_clauses(Rhs(p), Lhs(q)))
        ELSE OrClause(_distribute_clauses(Lhs(p), Rhs(p)), q)
    ELSE IF _is_simple_clause(p) THEN
        IF q.op = "AND"
        THEN AndClause(_distribute_clauses(p, Lhs(q)),
                       _distribute_clauses(p, Rhs(q)))
        ELSE OrClause(_distribute_clauses(p, Lhs(q)),
                      _distribute_clauses(p, Rhs(q)))
    ELSE IF _is_simple_clause(q) THEN
        IF p.op = "AND"
        THEN AndClause(_distribute_clauses(Lhs(p), q),
                       _distribute_clauses(Rhs(p), q))
        ELSE OrClause(_distribute_clauses(Lhs(p), q),
                      _distribute_clauses(Rhs(p), q))
    ELSE IF p.op = "AND" /\ q.op = "AND" THEN
        AndClause(AndClause(AndClause(_distribute_clauses(Lhs(p), Lhs(q)),
                                      _distribute_clauses(Lhs(p), Rhs(q))),
                            _distribute_clauses(Rhs(p), Lhs(q))),
                  _distribute_clauses(Rhs(p), Rhs(q)))
    ELSE IF p.op = "AND" THEN
        AndClause(_distribute_clauses(p, Lhs(q)),
                  _distribute_clauses(p, Rhs(q)))
    ELSE IF q.op = "AND" THEN
        AndClause(_distribute_clauses(Lhs(p), q),
                  _distribute_clauses(Rhs(p), q))
    ELSE OrClause(_distribute_clauses(Lhs(p), Rhs(p)),
                  _distribute_clauses(Lhs(q), Rhs(q)))

RECURSIVE to_cnf(_)
to_cnf(f) ==
    IF f.op = "AND" THEN AndClause(to_cnf(f.lhs), to_cnf(f.rhs))
    ELSE IF f.op = "OR" THEN _distribute_clauses(to_cnf(f.lhs), to_cnf(f.rhs))
    ELSE IF f.op = "COND" THEN to_cnf(OrClause(Invert(f.lhs), f.rhs))
    ELSE IF f.op = "BICOND" THEN
        to_cnf(OrClause(AndClause(f.lhs, f.rhs),
                        AndClause(Invert(f.lhs), Invert(f.rhs))))
    ELSE f

---------------------------------------------------------------------------
(* CnfClause construction and CnfParser.                                   *)

\* the test of CnfClause.__init__ that raises UselessCnfClauseException
IsUseless(variables) ==
    \E variable \in variables :
        variable \in variables /\ Invert(variable) \in variables

\* CnfParser._get_subtrees: the list self.and_clauses it appends to
RECURSIVE _get_subtrees(_)
_get_subtrees(node) ==
    IF node.op # "VAR" /\ node.op = "AND" THEN
        (IF node.lhs.op # "AND" THEN <<node.lhs>> ELSE _get_subtrees(node.lhs))
        \o
        (IF node.rhs.op # "AND" THEN <<node.rhs>> ELSE _get_subtrees(node.rhs))
    ELSE <<>>

\* CnfParser._get_cnf_clause
RECURSIVE _get_cnf_clause(_)
_get_cnf_clause(subtree) ==
    IF subtree.op # "VAR"
    THEN _get_cnf_clause(subtree.lhs) \cup _get_cnf_clause(subtree.rhs)
    ELSE {Lhs(subtree)}

\* a parse without the branch for a formula that has no And at its root
parse_spine_only(clause) ==
    LET and_clauses == _get_subtrees(clause)
    IN  {_get_cnf_clause(and_clauses[i]) : i \in
            {j \in 1..Len(and_clauses) :
                ~IsUseless(_get_cnf_clause(and_clauses[j]))}}

\* CnfParser.parse
parse(clause) ==
    LET and_clauses == _get_subtrees(clause)
    IN  IF Len(and_clauses) > 0
        THEN {_get_cnf_clause(and_clauses[i]) : i \in
                 {j \in 1..Len(and_clauses) :
                     ~IsUseless(_get_cnf_clause(and_clauses[j]))}}
        ELSE IF IsUseless(_get_cnf_clause(clause)) THEN {}
             ELSE {_get_cnf_clause(clause)}

---------------------------------------------------------------------------
(* Truth under an assignment m (a function from identifiers to BOOLEAN):   *)
(* the meaning of the connectives, against which the code is judged.       *)

RECURSIVE Holds(_, _)
Holds(f, m) ==
    IF f.op = "VAR" THEN m[f.id] # f.neg
    ELSE IF f.op = "AND" THEN Holds(f.lhs, m) /\ Holds(f.rhs, m)
    ELSE IF f.op = "OR" THEN Holds(f.lhs, m) \/ Holds(f.rhs, m)
    ELSE IF f.op = "COND" THEN Holds(f.lhs, m) => Holds(f.rhs, m)
    ELSE Holds(f.lhs, m) <=> Holds(f.rhs, m)

Assignments(symbols) == [symbols -> BOOLEAN]

\* a formula is in CNF: no Cond or Bicond, and no And beneath an Or
RECURSIVE InCnf(_, _)
InCnf(f, under_or) ==
    IF f.op = "VAR" THEN TRUE
    ELSE IF f.op \in {"COND", "BICOND"} THEN FALSE
    ELSE IF f.op = "AND" /\ under_or THEN FALSE
    ELSE InCnf(f.lhs, under_or \/ f.op = "OR")
         /\ InCnf(f.rhs, under_or \/ f.op = "OR")

---------------------------------------------------------------------------
(* The formulas the model hands to the library.                            *)

LiteralsOf(symbols) == {Variable(s, n) : s \in symbols, n \in BOOLEAN}

\* the formulas over lits with exactly k leaves and exactly a Cond/Bicond nodes
RECURSIVE FormulasOf(_, _, _)
FormulasOf(lits, k, a) ==
    IF k = 1 THEN (IF a = 0 THEN lits ELSE {})
    ELSE UNION {
            {[op |-> o, lhs |-> x, rhs |-> y] :
                o \in {"AND", "OR"},
                x \in FormulasOf(lits, ib[1], ib[2]),
                y \in FormulasOf(lits, k - ib[1], a - ib[2])}
            : ib \in (1..(k-1)) \X (0..a)}
         \cup
         (IF a = 0 THEN {} ELSE UNION {
            {[op |-> o, lhs |-> x, rhs |-> y] :
                o \in {"COND", "BICOND"},
                x \in FormulasOf(lits, ib[1], ib[2]),
                y \in FormulasOf(lits, k - ib[1], a - 1 - ib[2])}
            : ib \in (1..(k-1)) \X (0..(a-1))})

FormulasUpTo(lits, k, a) ==
    UNION {FormulasOf(lits, kk[1], kk[2]) : kk \in (1..k) \X (0..a)}

\* the formulas handed to to_cnf
CnfInputs(n) == FormulasUpTo(LiteralsOf(CnfSymbols), n, MaxArrows)

\* the res of pl_resolution before its first assignment
Unbound == [bound |-> FALSE, lits |-> {}]

\* the variables of double negation in a run that negates nothing
InvertUnused == negated = NoClause /\ twice = NoClause

\* the variables of unify in a run that unifies nothing
UnifyUnused ==
    /\ unify_x = <<>> /\ unify_y = <<>>
    /\ theta_in = [none |-> TRUE] /\ subst = [none |-> TRUE]

\* the variables of HornClauseFOL in a run that constructs none
HornUnused ==
    /\ ctor_antecedents = <<>> /\ ctor_consequent = [kind |-> "None"]
    /\ hc = [kind |-> "none"] /\ hc_other = [kind |-> "none"]
    /\ equal = "none"

\* the variables of the chaining procedures in a run that calls neither
ChainUnused ==
    /\ chain_kb = <<>> /\ goals = <<>> /\ answers = [kind |-> "none"]
    /\ fc_alpha = [kind |-> "none"]
    /\ known_facts = <<>> /\ new_facts = <<>> /\ passes = 0

\* the variables of standardize_variables and of the operations on
\* substitutions in a run that calls none of them
StdOpsUnused ==
    /\ std_counter = 0 /\ std_out = [kind |-> "none"]
    /\ op_s1 = <<>> /\ op_s2 = <<>> /\ op_out = <<>>

\* the variables of a KB object queried again and again, in a run that has
\* no such object
FrameUnused ==
    /\ store_class = "none" /\ dkb = <<>> /\ dput = <<>>
    /\ last_query = [kind |-> "none"] /\ set_order = 0

LaterUnused == StdOpsUnused /\ FrameUnused

RestUnused ==
    InvertUnused /\ UnifyUnused /\ HornUnused /\ ChainUnused /\ LaterUnused

\* the dpll variables of a run that calls no dpll
DpllUnused == stack = <<>> /\ previously_seen = {}

\* the knowledge-base variables of a run that uses no knowledge base
KbUnused ==
    /\ kb = {} /\ added = {} /\ models = {}
    /\ alpha = NoClause /\ maxit = 0 /\ kbq = {} /\ interesting = {}
    /\ new_knowledge = {} /\ res = Unbound /\ pending = {}
    /\ added_knowledge = FALSE /\ it = 0

---------------------------------------------------------------------------
(* to_cnf followed by CnfParser().parse, on one input formula.             *)

InitCnf ==
    /\ pc = "start"
    /\ phi \in CnfInputs(MaxLeaves)
    /\ cnf = NoClause
    /\ parsed = {}
    /\ result = "none"
    /\ c1 = {} /\ c2 = {} /\ literal = NoClause /\ held = <<{}, {}>>
    /\ KbUnused
    /\ DpllUnused
    /\ RestUnused

ToCnf ==
    /\ pc = "start"
    /\ cnf' = to_cnf(phi)
    /\ pc' = "cnf"
    /\ UNCHANGED <<phi, parsed, result, resolveVars, kbVars, dpllVars, restVars>>

Parse ==
    /\ pc = "cnf"
    /\ parsed' = parse(cnf)
    /\ pc' = "parsed"
    /\ UNCHANGED <<phi, cnf, result, resolveVars, kbVars, dpllVars, restVars>>

NextCnf == ToCnf \/ Parse

SpecCnf == InitCnf /\ [][NextCnf]_vars

---------------------------------------------------------------------------
(* CnfClause.resolve.  The call works on two fresh CnfClauses built from   *)
(* copies of the operands' literal sets; the heap below holds the four     *)
(* literal sets by name so that what the removals change is explicit.      *)

\* the CnfClauses that can exist over a set of identifiers (the constructor
\* refuses a clause holding a literal and its negation)
CnfClausesOf(symbols) ==
    {c \in SUBSET LiteralsOf(symbols) : ~IsUseless(c)}

\* resolve, with c1 stored at location loc1 and c2 at location loc2
resolve_at(self, other, lit, loc1, loc2) ==
    LET heap0 == [s |-> self, o |-> other, c1 |-> self, c2 |-> other]
        raised(kind, heap) ==
            [kind |-> kind, value |-> {}, self |-> heap.s, other |-> heap.o]
    IN  IF lit \notin heap0[loc1] /\ Invert(lit) \notin heap0[loc1]
        THEN raised("CnfResolveError", heap0)
        ELSE IF lit \notin heap0[loc2] /\ Invert(lit) \notin heap0[loc2]
        THEN raised("CnfResolveError", heap0)
        ELSE
          LET c1p == IF lit \in self THEN loc1 ELSE loc2
              c2p == IF Invert(lit) \in self THEN loc1 ELSE loc2
          IN  IF lit \notin heap0[c1p] THEN raised("KeyError", heap0)
              ELSE
                LET heap1 == [heap0 EXCEPT ![c1p] = @ \ {lit}]
                IN  IF Invert(lit) \notin heap1[c2p]
                    THEN raised("KeyError", heap1)
                    ELSE
                      LET heap2 == [heap1 EXCEPT ![c2p] = @ \ {Invert(lit)}]
                          union == heap2[c1p] \cup heap2[c2p]
                      IN  IF IsUseless(union)
                          THEN raised("UselessCnfClauseException", heap2)
                          ELSE [kind |-> "ok", value |-> union,
                                self |-> heap2.s, other |-> heap2.o]

\* resolve without the two copies: c1 and c2 are the operands themselves
resolve_no_copy(self, other, lit) == resolve_at(self, other, lit, "s", "o")

\* CnfClause.resolve
resolve(self, other, lit) == resolve_at(self, other, lit, "c1", "c2")

InitResolve ==
    /\ pc = "start"
    /\ c1 \in CnfClausesOf(ResolveSymbols)
    /\ c2 \in CnfClausesOf(ResolveSymbols)
    /\ literal \in LiteralsOf(ResolveSymbols)
    /\ held = <<c1, c2>>
    /\ result = [kind |-> "none", value |-> {}]
    /\ phi = NoClause /\ cnf = NoClause /\ parsed = {}
    /\ KbUnused
    /\ DpllUnused
    /\ RestUnused

\* c1.resolve(c2, literal)
Resolve ==
    /\ pc = "start"
    /\ LET r == resolve(c1, c2, literal)
       IN  /\ result' = [kind |-> r.kind, value |-> r.value]
           /\ c1' = r.self
           /\ c2' = r.other
    /\ pc' = "resolved"
    /\ UNCHANGED <<literal, held, cnfVars, kbVars, dpllVars, restVars>>

NextResolve == Resolve

SpecResolve == InitResolve /\ [][NextResolve]_vars

---------------------------------------------------------------------------
(* PropLogicKB.add on a ResolutionKB, and the ResolutionKB constructor.    *)
(* What is handed to them is tagged with its Python type: a CnfClause, a   *)
(* Clause (a formula), a list, a set, or None.                             *)

CnfClauseArg(c) == [kind |-> "CnfClause", lits |-> c]

ClauseArg(f) == [kind |-> "Clause", f |-> f]

ListArg(items) == [kind |-> "list", items |-> items]

SetArg(items) == [kind |-> "set", items |-> items]

NoneArg == [kind |-> "None"]

\* a set.add that forgets what the set held
set_add_replace(clauses, clause) == {clause}

\* set.add: a Python set keeps one of any two equal elements, and two
\* CnfClauses are equal when their sorted literal lists print the same
set_add(clauses, clause) == clauses \cup {clause}

\* PropLogicKB.add, dispatched on the type of its argument
RECURSIVE add(_, _)
add(clauses, arg) ==
    IF arg.kind = "Clause" THEN
        add(clauses, SetArg({CnfClauseArg(c) : c \in parse(to_cnf(arg.f))}))
    ELSE IF arg.kind = "CnfClause" THEN set_add(clauses, arg.lits)
    ELSE IF arg.kind = "list" THEN
        IF arg.items = <<>> THEN clauses
        ELSE add(add(clauses, Head(arg.items)), ListArg(Tail(arg.items)))
    ELSE
        IF arg.items = {} THEN clauses
        ELSE LET x == CHOOSE y \in arg.items : TRUE
             IN  add(add(clauses, x), SetArg(arg.items \ {x}))

\* ResolutionKB.__init__
ResolutionKB(arg) ==
    IF arg.kind = "None" THEN {}
    ELSE IF arg.kind = "Clause" THEN parse(to_cnf(arg.f))
    ELSE LET items == IF arg.kind = "list"
                      THEN {arg.items[i] : i \in DOMAIN arg.items}
                      ELSE arg.items
         IN  UNION {IF x.kind # "CnfClause" THEN parse(to_cnf(x.f))
                    ELSE {x.lits} : x \in items}

\* the clauses the KB is to hold for an argument: the CnfClauses in it and
\* CnfParser().parse(to_cnf(F)) of the formulas F in it
RECURSIVE ClausesOfArg(_)
ClausesOfArg(arg) ==
    IF arg.kind = "CnfClause" THEN {arg.lits}
    ELSE IF arg.kind = "Clause" THEN parse(to_cnf(arg.f))
    ELSE IF arg.kind = "list"
    THEN UNION {ClausesOfArg(arg.items[i]) : i \in DOMAIN arg.items}
    ELSE IF arg.kind = "set" THEN UNION {ClausesOfArg(x) : x \in arg.items}
    ELSE {}

\* assignment m satisfies what was handed over: a CnfClause is the
\* disjunction of its literals, a collection the conjunction of its items
RECURSIVE Satisfies(_, _)
Satisfies(m, arg) ==
    IF arg.kind = "CnfClause" THEN \E l \in arg.lits : Holds(l, m)
    ELSE IF arg.kind = "Clause" THEN Holds(arg.f, m)
    ELSE IF arg.kind = "list"
    THEN \A i \in DOMAIN arg.items : Satisfies(m, arg.items[i])
    ELSE IF arg.kind = "set" THEN \A x \in arg.items : Satisfies(m, x)
    ELSE TRUE

KBLiterals == LiteralsOf(KBSymbols)

KBClauses == CnfClausesOf(KBSymbols)

\* literals and one connective over two literals
SmallFormulas ==
    KBLiterals \cup
    {[op |-> o, lhs |-> x, rhs |-> y] :
        o \in {"AND", "OR", "COND", "BICOND"}, x \in KBLiterals, y \in KBLiterals}

\* the items put into a list or a set: CnfClauses and Variables (the
\* connective classes define __eq__ without __hash__ and cannot be in a set)
CollectionItems ==
    {CnfClauseArg(c) : c \in KBClauses} \cup {ClauseArg(l) : l \in KBLiterals}

ListArgs ==
    {ListArg(items) :
        items \in UNION {[1..n -> CollectionItems] : n \in 0..MaxListLen}}

SetArgs ==
    {SetArg(items) :
        items \in {S \in SUBSET CollectionItems : Cardinality(S) <= MaxListLen}}

QueryIdle ==
    /\ alpha = NoClause /\ maxit = 0 /\ kbq = {} /\ interesting = {}
    /\ new_knowledge = {} /\ res = Unbound /\ pending = {}
    /\ added_knowledge = FALSE /\ it = 0

NoKbUse ==
    /\ phi = NoClause /\ cnf = NoClause /\ parsed = {}
    /\ c1 = {} /\ c2 = {} /\ literal = NoClause /\ held = <<{}, {}>>

\* kb = ResolutionKB()
InitKB ==
    /\ pc = "idle"
    /\ result = "none"
    /\ kb = ResolutionKB(NoneArg)
    /\ added = {}
    /\ models = Assignments(KBSymbols)
    /\ QueryIdle
    /\ NoKbUse
    /\ DpllUnused
    /\ RestUnused

\* kb = ResolutionKB(F) for a formula F
InitFromFormula ==
    /\ pc = "idle"
    /\ result = "none"
    /\ \E f \in CnfInputs(MaxLeaves) :
          /\ kb = ResolutionKB(ClauseArg(f))
          /\ added = ClausesOfArg(ClauseArg(f))
          /\ models = {m \in Assignments(KBSymbols) : Holds(f, m)}
    /\ QueryIdle
    /\ NoKbUse
    /\ DpllUnused
    /\ RestUnused

\* kb.add(arg), with the history kept beside it
Add(arg) ==
    /\ pc = "idle"
    /\ Cardinality(add(kb, arg)) <= MaxKBSize
    /\ kb' = add(kb, arg)
    /\ added' = added \cup ClausesOfArg(arg)
    /\ models' = {m \in models : Satisfies(m, arg)}
    /\ UNCHANGED <<pc, result, queryVars, cnfVars, resolveVars, dpllVars, restVars>>

AddCnfClause == \E c \in KBClauses : Add(CnfClauseArg(c))

AddFormula == \E f \in SmallFormulas : Add(ClauseArg(f))

AddList == \E arg \in ListArgs : Add(arg)

AddSet == \E arg \in SetArgs : Add(arg)

---------------------------------------------------------------------------
(* pl_resolution, one pass of its while loop in two parts: the loop over   *)
(* clause_pairs, then the loop over new_knowledge, one clause a step.      *)

\* a subset test that a clause does not pass against itself
issubset_proper(self, other) == (\A l \in self : l \in other) /\ self # other

\* a test for equality in place of the subset test
issubset_equal(self, other) == self = other

\* CnfClause.issubset
issubset(self, other) == \A l \in self : l \in other

\* CnfClause.is_empty_clause
is_empty_clause(self) == Cardinality(self) = 0

\* the triples (ci, cj, literal) put into clause_pairs
clause_pairs(interesting_clauses, kb_clauses) ==
    {t \in interesting_clauses \X (interesting_clauses \cup kb_clauses)
              \X KBLiterals :
        t[3] \in t[1] /\ Invert(t[3]) \in t[2]}

\* The triples that can stand first in the list clause_pairs: ci and its
\* literal are met in set order, and literal_clause_map lists the clauses of
\* interesting_clauses before those of the KB.
first_pairs(interesting_clauses, kb_clauses) ==
    {t \in clause_pairs(interesting_clauses, kb_clauses) :
        \/ t[2] \in interesting_clauses
        \/ ~\E c \in interesting_clauses : Invert(t[3]) \in c}

\* a set as a list, in one fixed order
RECURSIVE ListOf(_)
ListOf(S) ==
    IF S = {} THEN <<>>
    ELSE LET x == CHOOSE y \in S : TRUE IN <<x>> \o ListOf(S \ {x})

\* The orders of clause_pairs told apart: only its first triple decides
\* whether res is still unbound when a tautological resolvent is skipped;
\* the order of the others changes neither what the loop returns nor what
\* it adds to new_knowledge.
pair_lists(interesting_clauses, kb_clauses) ==
    LET P == clause_pairs(interesting_clauses, kb_clauses)
    IN  IF P = {} THEN {<<>>}
        ELSE {<<h>> \o ListOf(P \ {h}) :
                 h \in first_pairs(interesting_clauses, kb_clauses)}

\* the loop "for ci, cj, literal in clause_pairs" from the given triple on
RECURSIVE for_clause_pairs(_, _, _)
for_clause_pairs(pairs, res0, new0) ==
    IF pairs = <<>> THEN [kind |-> "end", res |-> res0, new |-> new0]
    ELSE
      LET t == Head(pairs)
          r == resolve(t[1], t[2], t[3])
          res1 == IF r.kind = "ok" THEN [bound |-> TRUE, lits |-> r.value]
                  ELSE res0
      IN  IF r.kind \notin {"ok", "UselessCnfClauseException"}
          THEN [kind |-> r.kind, res |-> res0, new |-> new0]
          ELSE IF ~res1.bound
          THEN [kind |-> "UnboundLocalError", res |-> res0, new |-> new0]
          ELSE IF is_empty_clause(res1.lits)
          THEN [kind |-> "True", res |-> res1, new |-> new0]
          ELSE for_clause_pairs(Tail(pairs), res1,
                                add(new0, CnfClauseArg(res1.lits)))

MaxitChoices == (0..MaxMaxit) \cup {DefaultMaxit}

\* pl_resolution(kb, a, n) up to its while loop
Query ==
    /\ pc = "idle"
    /\ \E a \in SmallFormulas, n \in MaxitChoices :
          /\ alpha' = a
          /\ maxit' = n
          /\ kbq' = ResolutionKB(SetArg({CnfClauseArg(c) : c \in kb}))
          /\ interesting' =
                add(ResolutionKB(NoneArg),
                    SetArg({CnfClauseArg(c) : c \in parse(to_cnf(Invert(a)))}))
    /\ new_knowledge' = ResolutionKB(NoneArg)
    /\ res' = Unbound
    /\ it' = 1
    /\ pc' = "while"
    /\ UNCHANGED <<result, storeVars, pending, added_knowledge,
                   cnfVars, resolveVars, dpllVars, restVars>>

\* the while test fails: "Negation as failure (exhausted!)"
Exhausted ==
    /\ pc = "while"
    /\ ~(it <= maxit)
    /\ result' = "False"
    /\ pc' = "done"
    /\ UNCHANGED <<storeVars, queryVars, cnfVars, resolveVars, dpllVars, restVars>>

\* a pass, up to the end of the loop over clause_pairs
ResolvePairs ==
    /\ pc = "while"
    /\ it <= maxit
    /\ \E pairs \in pair_lists(interesting, kbq) :
          LET out == for_clause_pairs(pairs, res, new_knowledge)
          IN  IF out.kind = "end"
              THEN /\ res' = out.res
                   /\ new_knowledge' = out.new
                   /\ pending' = out.new
                   /\ added_knowledge' = FALSE
                   /\ pc' = "subsume"
                   /\ UNCHANGED result
              ELSE /\ result' = out.kind
                   /\ pc' = "done"
                   /\ UNCHANGED <<res, new_knowledge, pending, added_knowledge>>
    /\ UNCHANGED <<storeVars, alpha, maxit, kbq, interesting, it,
                   cnfVars, resolveVars, dpllVars, restVars>>

\* one turn of "for clause in new_knowledge.clauses"
Subsume ==
    /\ pc = "subsume"
    /\ \E clause \in pending :
          LET any_subset ==
                  \/ \E old_clause \in interesting : issubset(old_clause, clause)
                  \/ \E old_clause \in kbq : issubset(old_clause, clause)
          IN  /\ pending' = pending \ {clause}
              /\ IF ~any_subset
                 THEN /\ interesting' = add(interesting, CnfClauseArg(clause))
                      /\ added_knowledge' = TRUE
                 ELSE UNCHANGED <<interesting, added_knowledge>>
    /\ UNCHANGED <<pc, result, storeVars, alpha, maxit, kbq, new_knowledge,
                   res, it, cnfVars, resolveVars, dpllVars, restVars>>

\* the end of a pass: return False, or count the pass and go on
EndPass ==
    /\ pc = "subsume"
    /\ pending = {}
    /\ IF ~added_knowledge
       THEN /\ result' = "False"
            /\ pc' = "done"
            /\ UNCHANGED it
       ELSE /\ it' = it + 1
            /\ pc' = "while"
            /\ UNCHANGED result
    /\ UNCHANGED <<storeVars, alpha, maxit, kbq, interesting, new_knowledge,
                   res, pending, added_knowledge, cnfVars, resolveVars, dpllVars, restVars>>

\* the caller has the answer; the locals of the call are gone
Return ==
    /\ pc = "done"
    /\ pc' = "idle"
    /\ result' = "none"
    /\ alpha' = NoClause /\ maxit' = 0 /\ kbq' = {} /\ interesting' = {}
    /\ new_knowledge' = {} /\ res' = Unbound /\ pending' = {}
    /\ added_knowledge' = FALSE /\ it' = 0
    /\ UNCHANGED <<storeVars, cnfVars, resolveVars, dpllVars, restVars>>

NextKB ==
    \/ AddCnfClause
    \/ AddFormula
    \/ AddList
    \/ AddSet
    \/ Query
    \/ Exhausted
    \/ ResolvePairs
    \/ Subsume
    \/ EndPass
    \/ Return

SpecKB == InitKB /\ [][NextKB]_vars

SpecEntail == InitFromFormula /\ [][NextKB]_vars

---------------------------------------------------------------------------
(* dpll_satisfiable and dpll.  The model dict is a defaultdict whose       *)
(* missing keys read as None and are inserted by the read; it is a         *)
(* function from the identifiers it holds to "True", "False" or "None".    *)

\* defaultdict(lambda: None)
EmptyModel == [k \in {} |-> "None"]

\* model[k], the value read
Get(model, k) == IF k \in DOMAIN model THEN model[k] ELSE "None"

\* model[k], the dict after the read
Touch(model, k) == [j \in DOMAIN model \cup {k} |-> Get(model, j)]

\* model[k] = v
Put(model, k, v) == [j \in DOMAIN model \cup {k} |-> IF j = k THEN v ELSE model[j]]

\* Python's "not" on True, False and None
Not(v) == IF v = "True" THEN "False" ELSE "True"

\* the truthyness CnfClause.is_true gives a literal
truthyness(lit, model) ==
    IF lit.id \in DOMAIN model
    THEN IF lit.neg THEN Not(model[lit.id]) ELSE model[lit.id]
    ELSE "None"

\* CnfClause.is_true, of a clause with at least one literal (the parser
\* returns no other)
is_true(self, model) ==
    IF \E l \in self : truthyness(l, model) = "True" THEN "True"
    ELSE IF \E l \in self : truthyness(l, model) = "None" THEN "None"
    ELSE "False"

\* find_clause_symbols
find_clause_symbols(cnf_clauses) == {l.id : l \in UNION cnf_clauses}

\* find_pure_symbol: what it can return, with the dict as its read of
\* model[literal.identifier] leaves it; any pure literal can be the one the
\* iteration over the sets meets first
find_pure_symbol(symbols, clauses, model) ==
    LET variables == {l \in UNION clauses : l.id \in symbols}
        pure == {l \in variables : Invert(l) \notin variables}
    IN  IF pure = {} THEN {[p |-> "None", value |-> "None", model |-> model]}
        ELSE {[p |-> l.id, value |-> Get(model, l.id),
               model |-> Touch(model, l.id)] : l \in pure}

\* find_unit_clause: what it can return.  false_literals is emptied at each
\* literal, so the test passes at a literal of a one-literal clause that is
\* not false and at a false literal of a two-literal clause, and the symbol
\* is that of the clause's other (or only) literal.
find_unit_clause(clauses, model, seen) ==
    LET found ==
            {l.id : l \in UNION {c \in clauses :
                        /\ Cardinality(c) = 1
                        /\ \A k \in c : truthyness(k, model) # "False"}}
            \cup
            {l.id : l \in UNION {{k \in c : truthyness(k, model) # "False"} :
                        c \in {d \in clauses :
                                  /\ Cardinality(d) = 2
                                  /\ \E k \in d : truthyness(k, model) = "False"}}}
        fresh == found \ seen
    IN  IF fresh = {} THEN {[p |-> "None", value |-> "None", model |-> model]}
        ELSE {[p |-> q, value |-> Get(model, q), model |-> Touch(model, q)] :
                 q \in fresh}

\* all_clauses_true of dpll, over at least one clause
all_clauses_true(clauses, model) ==
    \A clause \in clauses : is_true(clause, model) = "True"

\* the sentences handed to dpll_satisfiable
DpllInputs(n) == FormulasUpTo(LiteralsOf(DpllSymbols), n, MaxArrows)

InitDpll ==
    /\ pc = "start"
    /\ phi \in DpllInputs(MaxDpllLeaves)
    /\ cnf = NoClause
    /\ parsed = {}
    /\ result = "none"
    /\ c1 = {} /\ c2 = {} /\ literal = NoClause /\ held = <<{}, {}>>
    /\ KbUnused
    /\ DpllUnused
    /\ RestUnused

\* dpll_satisfiable up to its call of dpll
DpllSatisfiable ==
    /\ pc = "start"
    /\ cnf' = to_cnf(phi)
    /\ parsed' = parse(to_cnf(phi))
    /\ stack' = <<[symbols |-> find_clause_symbols(parse(to_cnf(phi))),
                   model |-> EmptyModel]>>
    /\ previously_seen' = {}
    /\ pc' = "dpll"
    /\ UNCHANGED <<phi, result, resolveVars, kbVars, restVars>>

\* reduce() over no clause at all
DpllNoClauses ==
    /\ pc = "dpll"
    /\ parsed = {}
    /\ result' = "TypeError"
    /\ pc' = "done"
    /\ stack' = <<>>
    /\ UNCHANGED <<cnfVars, previously_seen, resolveVars, kbVars, restVars>>

\* a call finds every clause true: it and all its callers return True
DpllTrue ==
    /\ pc = "dpll"
    /\ parsed # {}
    /\ all_clauses_true(parsed, Head(stack).model)
    /\ result' = "True"
    /\ pc' = "done"
    /\ stack' = <<>>
    /\ UNCHANGED <<cnfVars, previously_seen, resolveVars, kbVars, restVars>>

\* a call finds a false clause and returns False: the caller goes on to its
\* second call if it has one to make, and returns False otherwise
DpllFalse ==
    /\ pc = "dpll"
    /\ parsed # {}
    /\ ~all_clauses_true(parsed, Head(stack).model)
    /\ \E clause \in parsed : is_true(clause, Head(stack).model) = "False"
    /\ stack' = Tail(stack)
    /\ IF Tail(stack) = <<>>
       THEN result' = "False" /\ pc' = "done"
       ELSE UNCHANGED <<result, pc>>
    /\ UNCHANGED <<cnfVars, previously_seen, resolveVars, kbVars, restVars>>

\* a call goes past both tests: the pure symbol, the unit clause, the split
DpllBranch ==
    /\ pc = "dpll"
    /\ parsed # {}
    /\ ~all_clauses_true(parsed, Head(stack).model)
    /\ ~\E clause \in parsed : is_true(clause, Head(stack).model) = "False"
    /\ LET symbols == Head(stack).symbols
       IN
       \E fp \in find_pure_symbol(symbols, parsed, Head(stack).model) :
         IF fp.p # "None" /\ fp.value # "None"
         THEN /\ stack' = <<[symbols |-> symbols \ {fp.p},
                             model |-> Put(fp.model, fp.p, fp.value)]>>
                          \o Tail(stack)
              /\ UNCHANGED <<previously_seen, result, pc>>
         ELSE
           \E fu \in find_unit_clause(parsed, fp.model, previously_seen) :
             IF fu.p # "None" /\ fu.value # "None"
             THEN /\ stack' = <<[symbols |-> symbols \ {fu.p},
                                 model |-> Put(fu.model, fu.p, fu.value)]>>
                              \o Tail(stack)
                  /\ previously_seen' = previously_seen \cup {fu.p}
                  /\ UNCHANGED <<result, pc>>
             ELSE IF symbols = {}
             THEN /\ result' = "KeyError"
                  /\ pc' = "done"
                  /\ stack' = <<>>
                  /\ UNCHANGED previously_seen
             ELSE
               \E p \in symbols :
                  /\ stack' = <<[symbols |-> symbols \ {p},
                                 model |-> Put(fu.model, p, "True")],
                                [symbols |-> symbols \ {p},
                                 model |-> Put(fu.model, p, "False")]>>
                              \o Tail(stack)
                  /\ UNCHANGED <<previously_seen, result, pc>>
    /\ UNCHANGED <<cnfVars, resolveVars, kbVars, restVars>>

NextDpll ==
    \/ DpllSatisfiable
    \/ DpllNoClauses
    \/ DpllTrue
    \/ DpllFalse
    \/ DpllBranch

SpecDpll == InitDpll /\ [][NextDpll]_vars

---------------------------------------------------------------------------
(* CnfParser().parse on a formula that is in CNF already.                  *)

\* the formulas in CNF handed to the parser
ParseInputs(n) ==
    {f \in FormulasUpTo(LiteralsOf(KBSymbols), n, 0) : InCnf(f, FALSE)}

InitParse ==
    /\ pc = "cnf"
    /\ cnf \in ParseInputs(MaxParseLeaves)
    /\ phi = cnf
    /\ parsed = {}
    /\ result = "none"
    /\ c1 = {} /\ c2 = {} /\ literal = NoClause /\ held = <<{}, {}>>
    /\ KbUnused
    /\ DpllUnused
    /\ RestUnused

NextParse == Parse

SpecParse == InitParse /\ [][NextParse]_vars

---------------------------------------------------------------------------
(* ~F and ~(~F).                                                           *)

InvertInputs(n) == FormulasUpTo(LiteralsOf(KBSymbols), n, MaxArrows)

InitInvert ==
    /\ pc = "start"
    /\ phi \in InvertInputs(MaxInvertLeaves)
    /\ cnf = NoClause
    /\ parsed = {}
    /\ result = "none"
    /\ c1 = {} /\ c2 = {} /\ literal = NoClause /\ held = <<{}, {}>>
    /\ KbUnused
    /\ DpllUnused
    /\ LaterUnused
    /\ InvertUnused
    /\ UnifyUnused
    /\ HornUnused
    /\ ChainUnused

\* ~F
Negate ==
    /\ pc = "start"
    /\ negated' = Invert(phi)
    /\ pc' = "negated"
    /\ UNCHANGED <<twice, result, cnfVars, resolveVars, kbVars, dpllVars, laterVars,
                   unifyVars, hornVars, chainVars>>

\* ~(~F)
NegateTwice ==
    /\ pc = "negated"
    /\ twice' = Invert(negated)
    /\ pc' = "twice"
    /\ UNCHANGED <<negated, result, cnfVars, resolveVars, kbVars, dpllVars, laterVars,
                   unifyVars, hornVars, chainVars>>

NextInvert == Negate \/ NegateTwice

SpecInvert == InitInvert /\ [][NextInvert]_vars

---------------------------------------------------------------------------
(* First-order terms, predicates and substitutions (fol.py).               *)

\* Term(identifier, type)
Term(identifier, type) == [id |-> identifier, type |-> type]

\* Predicate(identifier, args, is_negated), args a list of Terms
Predicate(identifier, args, is_negated) ==
    [id |-> identifier, args |-> args, neg |-> is_negated]

\* Python's None where a Substitution is expected
None == [none |-> TRUE]

\* Substitution(substitution_values): a dict from Terms to Terms
Substitution(substitution_values) ==
    [none |-> FALSE, values |-> substitution_values]

\* {}
EmptyDict == [k \in {} |-> k]

\* Substitution.__contains__
Contains(theta, key) == key \in DOMAIN theta.values

\* an update in which the bindings of the dict updated stay
update_keeps_old(d, m) ==
    [k \in DOMAIN d \cup DOMAIN m |-> IF k \in DOMAIN d THEN d[k] ELSE m[k]]

\* dict.update, on the copy d of a dict: the bindings of d and of m, those of
\* m where both have the key
update(d, m) ==
    [k \in DOMAIN d \cup DOMAIN m |-> IF k \in DOMAIN m THEN m[k] ELSE d[k]]

\* Substitution.add_substitutions: a copy of the mapping, updated, in a new
\* Substitution
add_substitutions(theta, substitution_values) ==
    Substitution(update(theta.values, substitution_values))

\* Substitution._arg_exception_handler raises ConstantAsVariableException
ConstantAsVariable(theta, pred) ==
    \E i \in DOMAIN pred.args :
        pred.args[i] \in DOMAIN theta.values /\ pred.args[i].type = "CONSTANT"

\* Substitution.substitute, when it raises nothing: each argument that is a
\* key is replaced by its value, once; the result is never negated
substitute(theta, pred) ==
    Predicate(pred.id,
              [i \in DOMAIN pred.args |->
                  IF pred.args[i] \in DOMAIN theta.values
                  THEN theta.values[pred.args[i]] ELSE pred.args[i]],
              FALSE)

\* what is passed to unify as x or y: a single Term or a list of Terms
TermArg(t) == [kind |-> "Term", term |-> t]

TermList(items) == [kind |-> "list", items |-> items]

RECURSIVE unify(_, _, _)
RECURSIVE unify_var(_, _, _)

\* a unify that gives up on a variable that is bound already
unify_var_no_lookup(var, x, theta) == add_substitutions(theta, var :> x)

\* unify_var; theta is never None where unify calls it
unify_var(var, x, theta) ==
    IF Contains(theta, var) THEN unify(TermArg(theta.values[var]), TermArg(x), theta)
    ELSE IF Contains(theta, x) THEN unify(TermArg(var), TermArg(theta.values[x]), theta)
    ELSE add_substitutions(theta, var :> x)

\* unify
unify(x, y, theta) ==
    IF theta = None THEN None
    ELSE IF x.kind = "list" /\ y.kind = "list" THEN
        IF Len(x.items) # Len(y.items) THEN None
        ELSE IF x.items = y.items THEN theta
        ELSE unify(TermList(Tail(x.items)), TermList(Tail(y.items)),
                   unify(TermArg(Head(x.items)), TermArg(Head(y.items)), theta))
    ELSE IF x.kind = "list" \/ y.kind = "list" THEN None
    ELSE IF x.term = y.term THEN theta
    ELSE IF x.term.type = "VARIABLE" THEN unify_var(x.term, y.term, theta)
    ELSE IF y.term.type = "VARIABLE" THEN unify_var(y.term, x.term, theta)
    ELSE None

---------------------------------------------------------------------------
(* Calls of unify, each passing on the substitution the one before         *)
(* returned, the first passing Substitution({}).                           *)

UnifyVariables == {Term(v, "VARIABLE") : v \in {"x", "y"}}

UnifyConstants == {Term(c, "CONSTANT") : c \in {"A", "B"}}

UnifyTerms == UnifyVariables \cup UnifyConstants

\* single terms and lists of up to n terms
UnifyInputs(n) ==
    {TermArg(t) : t \in UnifyTerms} \cup
    {TermList(l) : l \in UNION {[1..k -> UnifyTerms] : k \in 0..n}}

InitUnify ==
    /\ pc = "idle"
    /\ result = "none"
    /\ unify_x = <<>> /\ unify_y = <<>>
    /\ theta_in = None
    /\ subst = Substitution(EmptyDict)
    /\ phi = NoClause /\ cnf = NoClause /\ parsed = {}
    /\ c1 = {} /\ c2 = {} /\ literal = NoClause /\ held = <<{}, {}>>
    /\ KbUnused
    /\ DpllUnused
    /\ LaterUnused
    /\ InvertUnused
    /\ HornUnused
    /\ ChainUnused

\* subst = unify(x, y, subst)
Unify ==
    /\ pc = "idle"
    /\ \E x \in UnifyInputs(MaxUnifyLen), y \in UnifyInputs(MaxUnifyLen) :
          /\ unify_x' = x
          /\ unify_y' = y
          /\ theta_in' = subst
          /\ subst' = unify(x, y, subst)
    /\ pc' = "unified"
    /\ UNCHANGED <<result, cnfVars, resolveVars, kbVars, dpllVars, laterVars, invertVars,
                   hornVars, chainVars>>

\* the caller keeps what was returned, to pass it to the next call
UnifyReturn ==
    /\ pc = "unified"
    /\ pc' = "idle"
    /\ unify_x' = <<>> /\ unify_y' = <<>>
    /\ theta_in' = None
    /\ UNCHANGED <<subst, result, cnfVars, resolveVars, kbVars, dpllVars, laterVars,
                   invertVars, hornVars, chainVars>>

\* the caller starts again from Substitution({})
UnifyReset ==
    /\ pc = "idle"
    /\ subst # Substitution(EmptyDict)
    /\ subst' = Substitution(EmptyDict)
    /\ UNCHANGED <<pc, unify_x, unify_y, theta_in>>
    /\ UNCHANGED <<result, cnfVars, resolveVars, kbVars, dpllVars, laterVars, invertVars,
                   hornVars, chainVars>>

NextUnify == Unify \/ UnifyReturn \/ UnifyReset

SpecUnify == InitUnify /\ [][NextUnify]_vars

---------------------------------------------------------------------------
(* Horn clauses (fol.py, HornClauseFOL).                                   *)

\* the predicate identifiers of the model, in the order Python's sorted
\* puts them
IdentifierOrder == <<"G", "H", "K", "P", "Q">>

\* identifier a sorts at or before identifier b
IdAtMost(a, b) ==
    \E i, j \in DOMAIN IdentifierOrder :
        IdentifierOrder[i] = a /\ IdentifierOrder[j] = b /\ i <= j

RECURSIVE sorted(_)
\* sorted(antecedents, key=lambda x: x.identifier): stable, so predicates of
\* one identifier keep the order they were given in
sorted(antecedents) ==
    IF antecedents = <<>> THEN <<>>
    ELSE LET n == Len(antecedents)
             last == antecedents[n]
             front == sorted(SubSeq(antecedents, 1, n - 1))
             keep == {i \in DOMAIN front : IdAtMost(front[i].id, last.id)}
             k == Cardinality(keep)
         IN  SubSeq(front, 1, k) \o <<last>> \o SubSeq(front, k + 1, n - 1)

\* the consequent argument: None, a bool or a Predicate
NoConsequent == [kind |-> "None"]

BoolConsequent(b) == [kind |-> "bool", value |-> b]

PredConsequent(p) == [kind |-> "Predicate", pred |-> p]

\* Predicate.__invert__
InvertPredicate(p) == Predicate(p.id, p.args, ~p.neg)

\* a constructed clause
HornClause(antecedents, consequent) ==
    [kind |-> "HornClauseFOL", antecedents |-> antecedents,
     consequent |-> consequent]

\* a constructor that turns a negated consequent into False and drops it
HornClauseFOL_drops_negated(antecedents, consequent) ==
    IF \E i \in DOMAIN antecedents : antecedents[i].neg
    THEN [kind |-> "BadHornClauseFOL"]
    ELSE IF Len(antecedents) = 1 /\ consequent = NoConsequent
    THEN HornClause(sorted(antecedents), BoolConsequent(TRUE))
    ELSE IF consequent.kind = "Predicate" /\ consequent.pred.neg
    THEN HornClause(sorted(antecedents), BoolConsequent(FALSE))
    ELSE IF consequent = NoConsequent
    THEN HornClause(sorted(antecedents), BoolConsequent(FALSE))
    ELSE HornClause(sorted(antecedents), consequent)

\* HornClauseFOL.__init__
HornClauseFOL(antecedents, consequent) ==
    IF \E i \in DOMAIN antecedents : antecedents[i].neg
    THEN [kind |-> "BadHornClauseFOL"]
    ELSE IF Len(antecedents) = 1 /\ consequent = NoConsequent
    THEN HornClause(sorted(antecedents), BoolConsequent(TRUE))
    ELSE IF consequent.kind = "Predicate" /\ consequent.pred.neg
    THEN HornClause(sorted(antecedents) \o <<InvertPredicate(consequent.pred)>>,
                    BoolConsequent(FALSE))
    ELSE IF consequent = NoConsequent
    THEN HornClause(sorted(antecedents), BoolConsequent(FALSE))
    ELSE HornClause(sorted(antecedents), consequent)

\* HornClauseFOL.__eq__ of two clauses: the consequents are compared, with
\* bool == bool for two bools and Predicate.__eq__ for two predicates; a bool
\* against a predicate ends in Predicate.__eq__ reading identifier of a bool
HornEq(self, other) ==
    IF self.consequent.kind # other.consequent.kind THEN "AttributeError"
    ELSE IF self.consequent = other.consequent THEN "True"
    ELSE "False"

---------------------------------------------------------------------------
(* Horn clauses constructed one after another; the last two compared.      *)

HornX == Term("x", "VARIABLE")

HornA == Term("A", "CONSTANT")

\* the predicates the clauses are built from
HornPredicates ==
    {Predicate("P", <<HornX>>, FALSE), Predicate("Q", <<HornX>>, FALSE),
     Predicate("Q", <<HornX>>, TRUE), Predicate("Q", <<HornA>>, FALSE)}

\* lists of up to n antecedents
AntecedentLists(n) == UNION {[1..k -> HornPredicates] : k \in 0..n}

Consequents ==
    {NoConsequent} \cup {BoolConsequent(b) : b \in BOOLEAN}
        \cup {PredConsequent(p) : p \in HornPredicates}

InitHorn ==
    /\ pc = "idle"
    /\ result = "none"
    /\ HornUnused
    /\ phi = NoClause /\ cnf = NoClause /\ parsed = {}
    /\ c1 = {} /\ c2 = {} /\ literal = NoClause /\ held = <<{}, {}>>
    /\ KbUnused
    /\ DpllUnused
    /\ LaterUnused
    /\ InvertUnused
    /\ UnifyUnused
    /\ ChainUnused

\* hc = HornClauseFOL(antecedents, consequent)
Construct ==
    /\ pc \in {"idle", "held"}
    /\ \E antecedents \in AntecedentLists(MaxAntecedents),
          consequent \in Consequents :
          /\ ctor_antecedents' = antecedents
          /\ ctor_consequent' = consequent
          /\ hc' = HornClauseFOL(antecedents, consequent)
    /\ hc_other' = hc
    /\ equal' = "none"
    /\ pc' = "constructed"
    /\ UNCHANGED <<result, cnfVars, resolveVars, kbVars, dpllVars, laterVars, invertVars,
                   unifyVars, chainVars>>

\* hc == hc_other
Compare ==
    /\ pc = "constructed"
    /\ hc.kind = "HornClauseFOL" /\ hc_other.kind = "HornClauseFOL"
    /\ equal' = HornEq(hc, hc_other)
    /\ pc' = "compared"
    /\ UNCHANGED <<result, cnfVars, resolveVars, kbVars, dpllVars, laterVars, invertVars,
                   unifyVars, chainVars, ctor_antecedents, ctor_consequent,
                   hc, hc_other>>

\* the caller keeps the clause and forgets how it was made
Keep ==
    /\ pc \in {"constructed", "compared"}
    /\ pc' = "held"
    /\ ctor_antecedents' = <<>> /\ ctor_consequent' = NoConsequent
    /\ hc_other' = [kind |-> "none"]
    /\ equal' = "none"
    /\ UNCHANGED <<hc, result, cnfVars, resolveVars, kbVars, dpllVars, laterVars,
                   invertVars, unifyVars, chainVars>>

NextHorn == Construct \/ Compare \/ Keep

SpecHorn == InitHorn /\ [][NextHorn]_vars

---------------------------------------------------------------------------
(* Standardizing apart and backward chaining (fol.py).                     *)

\* the dict seen of standardize_variables, from identifiers to counters
SeenPut(seen, identifier, counter) ==
    [k \in DOMAIN seen \cup {identifier} |->
        IF k = identifier THEN counter ELSE seen[k]]

RECURSIVE standardize_args_never_seen(_, _, _)
\* a loop that takes every variable for a new one
standardize_args_never_seen(args, counter, seen) ==
    IF args = <<>> THEN [args |-> <<>>, counter |-> counter, seen |-> seen]
    ELSE LET arg == Head(args)
             fresh == arg.type = "VARIABLE"
             new_arg == IF fresh THEN Term(arg.id \o ToString(counter), arg.type)
                        ELSE Term(arg.id, arg.type)
             rest == standardize_args_never_seen(
                         Tail(args),
                         IF fresh THEN counter + 1 ELSE counter,
                         IF fresh THEN SeenPut(seen, arg.id, counter) ELSE seen)
         IN  [args |-> <<new_arg>> \o rest.args, counter |-> rest.counter,
              seen |-> rest.seen]

RECURSIVE standardize_args(_, _, _)
\* the loop of standardize_predicate over the arguments
standardize_args(args, counter, seen) ==
    IF args = <<>> THEN [args |-> <<>>, counter |-> counter, seen |-> seen]
    ELSE LET arg == Head(args)
             known == arg.type = "VARIABLE" /\ arg.id \in DOMAIN seen
             fresh == arg.type = "VARIABLE" /\ arg.id \notin DOMAIN seen
             new_arg == IF known THEN Term(arg.id \o ToString(seen[arg.id]), arg.type)
                        ELSE IF fresh THEN Term(arg.id \o ToString(counter), arg.type)
                        ELSE Term(arg.id, arg.type)
             rest == standardize_args(Tail(args),
                                      IF fresh THEN counter + 1 ELSE counter,
                                      IF fresh THEN SeenPut(seen, arg.id, counter)
                                      ELSE seen)
         IN  [args |-> <<new_arg>> \o rest.args, counter |-> rest.counter,
              seen |-> rest.seen]

\* standardize_predicate; pred is a predicate or a bool
standardize_predicate(pred, counter, seen) ==
    IF pred.kind = "Predicate"
    THEN LET r == standardize_args(pred.pred.args, counter, seen)
         IN  [pred |-> PredConsequent(Predicate(pred.pred.id, r.args, FALSE)),
              counter |-> r.counter, seen |-> r.seen]
    ELSE [pred |-> pred, counter |-> counter, seen |-> seen]

RECURSIVE standardize_antecedents(_, _, _)
\* the loop of standardize_variables over the antecedents
standardize_antecedents(antecedents, counter, seen) ==
    IF antecedents = <<>>
    THEN [preds |-> <<>>, counter |-> counter, seen |-> seen]
    ELSE LET one == standardize_predicate(PredConsequent(Head(antecedents)),
                                          counter, seen)
             rest == standardize_antecedents(Tail(antecedents), one.counter,
                                             one.seen)
         IN  [preds |-> <<one.pred.pred>> \o rest.preds,
              counter |-> rest.counter, seen |-> rest.seen]

\* standardize_variables
standardize_variables(rule, counter) ==
    LET a == standardize_antecedents(rule.antecedents, counter, EmptyDict)
        c == standardize_predicate(rule.consequent, a.counter, a.seen)
    IN  [rule |-> HornClauseFOL(a.preds, c.pred), counter |-> c.counter]

\* compose: a copy of the mapping of theta1, updated with a copy of that of
\* theta2, in a new Substitution
compose(theta1, theta2) == Substitution(update(theta1.values, theta2.values))

\* is_fact
is_fact(clause) == Len(clause.antecedents) = 0

\* what fol_bc_ask returns, or the exception it raises
Returned(list) == [kind |-> "returned", list |-> list]

Raised(exception) == [kind |-> exception]

RECURSIVE fol_bc_ask(_, _, _)
RECURSIVE bc_rules(_, _, _, _, _, _)

\* the loop of fol_bc_ask over the clauses of kb, from the i-th on
bc_rules(clauses, i, counter, goal_list, theta, found) ==
    IF i > Len(clauses) THEN Returned(found)
    ELSE LET q_ == substitute(theta, Head(goal_list))
             sv == standardize_variables(clauses[i], counter)
             r == sv.rule
             q == r.consequent
         IN  IF q.kind # "Predicate" THEN Raised("AttributeError")
             ELSE IF q_.id # q.pred.id
             THEN bc_rules(clauses, i + 1, sv.counter, goal_list, theta, found)
             ELSE LET theta_ == unify(TermList(q.pred.args), TermList(q_.args),
                                      Substitution(EmptyDict))
                  IN  IF theta_ = None
                      THEN bc_rules(clauses, i + 1, sv.counter, goal_list, theta, found)
                      ELSE LET sub == fol_bc_ask(clauses, r.antecedents \o Tail(goal_list),
                                                 compose(theta_, theta))
                           IN  IF sub.kind # "returned" THEN sub
                               ELSE bc_rules(clauses, i + 1, sv.counter, goal_list, theta,
                                             sub.list \o found)

RECURSIVE bc_uses(_, _, _, _, _)
\* the uses fol_bc_ask makes of clauses, in a call that raises nothing, from
\* the i-th clause of the loop on and in the calls below: the standardized
\* clause whose consequent unified with the goal, with the substitution and
\* the goals of the call
bc_uses(clauses, i, counter, goal_list, theta) ==
    IF goal_list = <<>> \/ i > Len(clauses) THEN {}
    ELSE CHOOSE uses \in
        {IF q_.id # sv.rule.consequent.pred.id
            \/ unify(TermList(sv.rule.consequent.pred.args), TermList(q_.args),
                     Substitution(EmptyDict)) = None
         THEN bc_uses(clauses, i + 1, sv.counter, goal_list, theta)
         ELSE {[rule |-> sv.rule, theta |-> theta, goals |-> goal_list]}
                  \cup bc_uses(clauses, 1, 0, sv.rule.antecedents \o Tail(goal_list),
                               compose(unify(TermList(sv.rule.consequent.pred.args),
                                             TermList(q_.args),
                                             Substitution(EmptyDict)),
                                       theta))
                  \cup bc_uses(clauses, i + 1, sv.counter, goal_list, theta)
           : sv \in {standardize_variables(clauses[i], counter)},
             q_ \in {substitute(theta, Head(goal_list))}} : TRUE

\* fol_bc_ask
fol_bc_ask(clauses, goal_list, theta) ==
    IF Len(goal_list) = 0 THEN Returned(<<theta>>)
    ELSE IF ConstantAsVariable(theta, Head(goal_list))
    THEN Raised("ConstantAsVariableException")
    ELSE bc_rules(clauses, 1, 0, goal_list, theta, <<>>)

---------------------------------------------------------------------------
(* Calls of fol_bc_ask on lists of clauses drawn from one rule,            *)
(* G(x) <= H(x) ^ K(x), four facts without antecedents and one fact given  *)
(* as a single antecedent.                                                 *)

ChainX == Term("x", "VARIABLE")

ChainV == Term("v", "VARIABLE")

ChainConstants == {Term("A", "CONSTANT"), Term("B", "CONSTANT")}

Atom(identifier, t) == Predicate(identifier, <<t>>, FALSE)

\* HornClauseFOL([], p)
Fact(p) == HornClauseFOL(<<>>, PredConsequent(p))

ChainRule ==
    HornClauseFOL(<<Atom("H", ChainX), Atom("K", ChainX)>>,
                  PredConsequent(Atom("G", ChainX)))

ChainClauses ==
    {ChainRule} \cup {Fact(Atom(i, c)) : i \in {"H", "K"}, c \in ChainConstants}
        \cup {HornClauseFOL(<<Atom("H", Term("A", "CONSTANT"))>>, NoConsequent)}

\* lists of up to n different clauses
ChainKBs(n) ==
    UNION {{l \in [1..k -> ChainClauses] :
               \A i, j \in 1..k : i # j => l[i] # l[j]} : k \in 0..n}

GoalAtoms ==
    {Atom("G", ChainV), Atom("G", Term("A", "CONSTANT")), Atom("H", ChainV),
     Atom("K", Term("B", "CONSTANT"))}

GoalLists == UNION {[1..k -> GoalAtoms] : k \in 0..2}

InitBc ==
    /\ pc = "idle"
    /\ result = "none"
    /\ ChainUnused
    /\ phi = NoClause /\ cnf = NoClause /\ parsed = {}
    /\ c1 = {} /\ c2 = {} /\ literal = NoClause /\ held = <<{}, {}>>
    /\ KbUnused
    /\ DpllUnused
    /\ LaterUnused
    /\ InvertUnused
    /\ UnifyUnused
    /\ HornUnused

\* answers = fol_bc_ask(kb, goals, Substitution({}))
BcAsk ==
    /\ pc = "idle"
    /\ \E kbl \in ChainKBs(MaxChainKB), goal_list \in GoalLists :
          /\ chain_kb' = kbl
          /\ goals' = goal_list
          /\ answers' = fol_bc_ask(kbl, goal_list, Substitution(EmptyDict))
    /\ pc' = "asked"
    /\ UNCHANGED <<result, cnfVars, resolveVars, kbVars, dpllVars, laterVars, invertVars,
                   unifyVars, hornVars, fc_alpha, known_facts, new_facts,
                   passes>>

\* the caller drops the answers and is free to ask again
BcDone ==
    /\ pc = "asked"
    /\ pc' = "idle"
    /\ chain_kb' = <<>> /\ goals' = <<>> /\ answers' = [kind |-> "none"]
    /\ UNCHANGED <<result, cnfVars, resolveVars, kbVars, dpllVars, laterVars, invertVars,
                   unifyVars, hornVars, fc_alpha, known_facts, new_facts,
                   passes>>

NextBc == BcAsk \/ BcDone

SpecBc == InitBc /\ [][NextBc]_vars

---------------------------------------------------------------------------
(* Forward chaining (fol.py, fol_fc_ask).                                  *)

\* the clauses of kb that are facts, and the others, each in the order of kb
FactsOf(clauses) == SelectSeq(clauses, is_fact)

\* the else branch of the test is_fact(hc)
is_rule(clause) == ~is_fact(clause)

RulesOf(clauses) == SelectSeq(clauses, is_rule)

\* n in known_facts
InList(n, l) == \E i \in DOMAIN l : l[i] = n

RECURSIVE unify_facts(_, _, _)
\* the loop over known_facts for one antecedent
unify_facts(facts, antecedent, theta) ==
    IF facts = <<>> THEN theta
    ELSE unify_facts(Tail(facts), antecedent,
                     IF antecedent.id = Head(facts).id
                     THEN unify(TermList(Head(facts).args),
                                TermList(antecedent.args), theta)
                     ELSE theta)

RECURSIVE unify_antecedents(_, _, _)
\* the loop over the antecedents of a rule
unify_antecedents(antecedents, facts, theta) ==
    IF antecedents = <<>> THEN theta
    ELSE unify_antecedents(Tail(antecedents), facts,
                           unify_facts(facts, Head(antecedents), theta))

\* every antecedent, substituted, is free of variables
satisfied(rule, theta) ==
    \A i \in DOMAIN rule.antecedents :
        \A j \in DOMAIN rule.antecedents[i].args :
            substitute(theta, rule.antecedents[i]).args[j].type # "VARIABLE"

RECURSIVE extend_known(_, _)
\* for n in new: if n not in known_facts: known_facts.append(n)
extend_known(facts, new) ==
    IF new = <<>> THEN facts
    ELSE extend_known(IF InList(Head(new), facts) THEN facts
                      ELSE Append(facts, Head(new)),
                      Tail(new))

\* what one pass of the while loop ends in
PassEnded(facts, new) == [kind |-> "pass", known_facts |-> facts, new |-> new]

RECURSIVE fc_rules(_, _, _, _, _)
\* one pass of the while loop: the loop over the rules of actual_kb, with
\* known_facts and new as they are when the loop comes to the first of rules;
\* sv is the rule standardized and theta what the loops over its antecedents
\* and the known facts leave, each computed once
fc_rules(rules, counter, facts_arg, new_arg, query) ==
    IF rules = <<>> THEN PassEnded(facts_arg, new_arg)
    ELSE CHOOSE outcome \in UNION {
        {IF ~(/\ theta # None
              /\ DOMAIN theta.values # {}
              /\ satisfied(sv.rule, theta))
         THEN fc_rules(Tail(rules), sv.counter, extend_known(facts, new),
                       new, query)
         ELSE IF sv.rule.consequent.kind # "Predicate"
         THEN Raised("AttributeError")
         ELSE LET q_ == substitute(theta, sv.rule.consequent.pred)
                  new_ == IF InList(q_, facts) THEN new ELSE Append(new, q_)
                  found == IF q_.id = query.id
                           THEN unify(TermList(q_.args), TermList(query.args),
                                      theta)
                           ELSE None
              IN  IF found # None THEN Returned(found)
                  ELSE fc_rules(Tail(rules), sv.counter,
                                extend_known(facts, new_), new_, query)
           : theta \in {unify_antecedents(sv.rule.antecedents, facts,
                                          Substitution(EmptyDict))}}
           : sv \in {standardize_variables(Head(rules), counter)},
             facts \in {facts_arg}, new \in {new_arg}} : TRUE

---------------------------------------------------------------------------
(* A call of fol_fc_ask, pass by pass, on the clause lists above and the   *)
(* clauses HornClauseFOL([], True); the loop has no exit but the return of *)
(* a substitution, as no_new_knowledge stays False.                        *)

FcClauses == ChainClauses \cup {HornClauseFOL(<<>>, BoolConsequent(TRUE))}

FcKBs(n) ==
    UNION {{l \in [1..k -> FcClauses] :
               \A i, j \in 1..k : i # j => l[i] # l[j]} : k \in 0..n}

InitFc ==
    /\ pc = "idle"
    /\ result = "none"
    /\ ChainUnused
    /\ phi = NoClause /\ cnf = NoClause /\ parsed = {}
    /\ c1 = {} /\ c2 = {} /\ literal = NoClause /\ held = <<{}, {}>>
    /\ KbUnused
    /\ DpllUnused
    /\ LaterUnused
    /\ InvertUnused
    /\ UnifyUnused
    /\ HornUnused

\* fol_fc_ask(kb, alpha), up to the while loop: the consequents of the facts
\* go to known_facts, and reading the identifier of a bool raises
FcStart ==
    /\ pc = "idle"
    /\ \E clauses \in FcKBs(MaxChainKB), query \in GoalAtoms :
          /\ chain_kb' = clauses
          /\ fc_alpha' = query
          /\ IF \E i \in DOMAIN FactsOf(clauses) :
                    FactsOf(clauses)[i].consequent.kind # "Predicate"
             THEN /\ pc' = "fc_done"
                  /\ answers' = Raised("AttributeError")
                  /\ known_facts' = <<>>
             ELSE /\ pc' = "fc_loop"
                  /\ answers' = answers
                  /\ known_facts' = [i \in DOMAIN FactsOf(clauses) |->
                                        FactsOf(clauses)[i].consequent.pred]
    /\ new_facts' = <<>>
    /\ passes' = 0
    /\ UNCHANGED <<goals, result, cnfVars, resolveVars, kbVars, dpllVars, laterVars,
                   invertVars, unifyVars, hornVars>>

\* one pass of the while loop
FcPass ==
    /\ pc = "fc_loop"
    /\ passes < MaxPasses
    /\ LET out == fc_rules(RulesOf(chain_kb), 0, known_facts, <<>>, fc_alpha)
       IN  IF out.kind = "pass"
           THEN /\ known_facts' = out.known_facts
                /\ new_facts' = out.new
                /\ passes' = passes + 1
                /\ UNCHANGED <<pc, answers>>
           ELSE /\ answers' = out
                /\ pc' = "fc_done"
                /\ UNCHANGED <<known_facts, new_facts, passes>>
    /\ UNCHANGED <<chain_kb, fc_alpha, goals, result, cnfVars, resolveVars,
                   kbVars, dpllVars, laterVars, invertVars, unifyVars, hornVars>>

NextFc == FcStart \/ FcPass

SpecFc == InitFc /\ [][NextFc]_vars

---------------------------------------------------------------------------
(* Calls of standardize_variables on clauses over two-place predicates.    *)

StdTerms ==
    {Term("x", "VARIABLE"), Term("y", "VARIABLE"), Term("A", "CONSTANT")}

\* the predicates the clauses are built from
StdAntecedents ==
    {Predicate("P", <<t, u>>, FALSE) : t \in StdTerms, u \in StdTerms}
        \cup {Predicate("Q", <<t>>, FALSE) :
                 t \in {Term("z", "VARIABLE"), Term("A", "CONSTANT")}}

StdConsequents ==
    {NoConsequent} \cup {BoolConsequent(b) : b \in BOOLEAN}
        \cup {PredConsequent(Predicate("G", <<t, u>>, FALSE)) :
                 t \in StdTerms \cup {Term("z", "VARIABLE")}, u \in StdTerms}
        \cup {PredConsequent(Predicate("G", <<Term("z", "VARIABLE"),
                                              Term("x", "VARIABLE")>>, TRUE))}

\* the clauses with up to n antecedents
StdRules(n) ==
    {HornClauseFOL(a, c) :
        a \in UNION {[1..k -> StdAntecedents] : k \in 0..n},
        c \in StdConsequents}

\* the counters passed in: small ones, and one that takes the names past 9
StdCounters == {0, 1, 9}

InitStd ==
    /\ pc = "idle"
    /\ result = "none"
    /\ LaterUnused
    /\ phi = NoClause /\ cnf = NoClause /\ parsed = {}
    /\ c1 = {} /\ c2 = {} /\ literal = NoClause /\ held = <<{}, {}>>
    /\ KbUnused
    /\ DpllUnused
    /\ InvertUnused
    /\ UnifyUnused
    /\ HornUnused
    /\ ChainUnused

\* std_out = standardize_variables(rule, counter)
Standardize ==
    /\ pc = "idle"
    /\ \E rule \in StdRules(MaxAntecedents), counter \in StdCounters :
          /\ hc' = rule
          /\ std_counter' = counter
          /\ std_out' = standardize_variables(rule, counter)
    /\ pc' = "standardized"
    /\ UNCHANGED <<result, cnfVars, resolveVars, kbVars, dpllVars, invertVars,
                   unifyVars, chainVars, ctor_antecedents, ctor_consequent,
                   hc_other, equal, op_s1, op_s2, op_out, frameVars>>

\* the caller is free to call again
StdDone ==
    /\ pc = "standardized"
    /\ pc' = "idle"
    /\ hc' = [kind |-> "none"]
    /\ std_counter' = 0 /\ std_out' = [kind |-> "none"]
    /\ UNCHANGED <<result, cnfVars, resolveVars, kbVars, dpllVars, invertVars,
                   unifyVars, chainVars, ctor_antecedents, ctor_consequent,
                   hc_other, equal, op_s1, op_s2, op_out, frameVars>>

NextStd == Standardize \/ StdDone

SpecStd == InitStd /\ [][NextStd]_vars

---------------------------------------------------------------------------
(* add_substitutions and compose on Substitution objects: op_s1 and op_s2  *)
(* are the mappings the objects involved hold, before a call and after it. *)

OpKeys == {Term("x", "VARIABLE"), Term("y", "VARIABLE")}

OpValues ==
    {Term("A", "CONSTANT"), Term("B", "CONSTANT"), Term("y", "VARIABLE")}

\* the dicts from some of the keys to the values
OpDicts == UNION {[K -> OpValues] : K \in SUBSET OpKeys}

InitOps ==
    /\ pc = "idle"
    /\ result = "none"
    /\ LaterUnused
    /\ phi = NoClause /\ cnf = NoClause /\ parsed = {}
    /\ c1 = {} /\ c2 = {} /\ literal = NoClause /\ held = <<{}, {}>>
    /\ KbUnused
    /\ DpllUnused
    /\ InvertUnused
    /\ UnifyUnused
    /\ HornUnused
    /\ ChainUnused

\* s1 = Substitution(d1) and a second dict, or a second Substitution(d2)
OpPick ==
    /\ pc = "idle"
    /\ \E d1 \in OpDicts, d2 \in OpDicts : op_s1' = d1 /\ op_s2' = d2
    /\ op_out' = <<>>
    /\ pc' = "picked"
    /\ UNCHANGED <<result, cnfVars, resolveVars, kbVars, dpllVars, invertVars,
                   unifyVars, hornVars, chainVars, std_counter, std_out,
                   frameVars>>

\* s1.add_substitutions(d2): the update is made on new_subs, a copy, and
\* neither self._substitution_values nor the argument is written to
AddSubstitutions ==
    /\ pc = "picked"
    /\ op_out' = add_substitutions(Substitution(op_s1), op_s2).values
    /\ pc' = "added"
    /\ UNCHANGED <<op_s1, op_s2, result, cnfVars, resolveVars, kbVars, dpllVars,
                   invertVars, unifyVars, hornVars, chainVars, std_counter,
                   std_out, frameVars>>

\* compose(s1, s2): the property substitution_values hands out copies, and
\* the update is made on the copy of the first
Compose ==
    /\ pc = "picked"
    /\ op_out' = compose(Substitution(op_s1), Substitution(op_s2)).values
    /\ pc' = "composed"
    /\ UNCHANGED <<op_s1, op_s2, result, cnfVars, resolveVars, kbVars, dpllVars,
                   invertVars, unifyVars, hornVars, chainVars, std_counter,
                   std_out, frameVars>>

\* the caller drops the objects
OpDone ==
    /\ pc \in {"added", "composed"}
    /\ pc' = "idle"
    /\ op_s1' = <<>> /\ op_s2' = <<>> /\ op_out' = <<>>
    /\ UNCHANGED <<result, cnfVars, resolveVars, kbVars, dpllVars, invertVars,
                   unifyVars, hornVars, chainVars, std_counter, std_out,
                   frameVars>>

NextOps == OpPick \/ AddSubstitutions \/ Compose \/ OpDone

SpecOps == InitOps /\ [][NextOps]_vars

---------------------------------------------------------------------------
(* A KB object, a ResolutionKB or a DpllKB, that add and query are called  *)
(* on in any order, each query a whole call.  Within one process a set is  *)
(* iterated in the same order whenever it is built the same way; set_order *)
(* stands for that order.                                                  *)

RECURSIVE Nth(_, _)
\* the element of the set S met after n others
Nth(S, n) ==
    LET x == CHOOSE y \in S : TRUE
    IN  IF n = 0 THEN x ELSE Nth(S \ {x}, n - 1)

\* next(iter(S)) of a set that is not empty
First(S, order) == Nth(S, order % Cardinality(S))

RECURSIVE Iterate(_, _)
\* "for x in S"
Iterate(S, order) ==
    IF S = {} THEN <<>>
    ELSE <<First(S, order)>> \o Iterate(S \ {First(S, order)}, order)

RECURSIVE for_clause_pairs_shared(_, _, _, _)
\* The loop over clause_pairs, and beside it the CnfClause objects of the
\* stored set: kb.clauses.copy() is a copy of the set only, so a cj taken
\* from the KB is the stored object itself, and what resolve leaves of its
\* operand "other" is what the stored set then holds.
for_clause_pairs_shared(pairs, res0, new0, shared) ==
    IF pairs = <<>>
    THEN [kind |-> "end", res |-> res0, new |-> new0, shared |-> shared]
    ELSE CHOOSE out \in
        {IF step.kind # "end"
         THEN [kind |-> step.kind, res |-> step.res, new |-> step.new,
               shared |-> after]
         ELSE for_clause_pairs_shared(Tail(pairs), step.res, step.new, after)
           : step \in {for_clause_pairs(<<Head(pairs)>>, res0, new0)},
             after \in {IF Head(pairs)[2] \in shared
                        THEN (shared \ {Head(pairs)[2]}) \cup
                             {resolve(Head(pairs)[1], Head(pairs)[2],
                                      Head(pairs)[3]).other}
                        ELSE shared}} : TRUE

RECURSIVE for_new_knowledge(_, _, _, _)
\* the loop "for clause in new_knowledge.clauses"
for_new_knowledge(clauses, interesting_clauses, kb_clauses, added0) ==
    IF clauses = <<>>
    THEN [interesting |-> interesting_clauses, added_knowledge |-> added0]
    ELSE CHOOSE out \in
        {for_new_knowledge(
             Tail(clauses),
             IF any_subset THEN interesting_clauses
             ELSE add(interesting_clauses, CnfClauseArg(Head(clauses))),
             kb_clauses,
             added0 \/ ~any_subset)
           : any_subset \in
               {\/ \E old_clause \in interesting_clauses :
                       issubset(old_clause, Head(clauses))
                \/ \E old_clause \in kb_clauses :
                       issubset(old_clause, Head(clauses))}} : TRUE

RECURSIVE while_it(_, _, _)
\* the while loop of pl_resolution, from the state st of its locals on
while_it(st, limit, order) ==
    IF ~(st.it <= limit) THEN [result |-> "False", shared |-> st.shared]
    ELSE CHOOSE out \in UNION {
        {IF loop.kind # "end"
         THEN [result |-> loop.kind, shared |-> loop.shared]
         ELSE IF ~sub.added_knowledge
         THEN [result |-> "False", shared |-> loop.shared]
         ELSE while_it([kbq |-> st.kbq, interesting |-> sub.interesting,
                        new |-> loop.new, res |-> loop.res, it |-> st.it + 1,
                        shared |-> loop.shared], limit, order)
           : sub \in {IF loop.kind # "end"
                      THEN [interesting |-> st.interesting,
                            added_knowledge |-> FALSE]
                      ELSE for_new_knowledge(Iterate(loop.new, order),
                                             st.interesting, st.kbq, FALSE)}}
           : loop \in {for_clause_pairs_shared(
                           First(pair_lists(st.interesting, st.kbq), order),
                           st.res, st.new, st.shared)}} : TRUE

\* pl_resolution(kb, alpha, maxit): what it returns or raises, and the
\* clauses the stored set of kb holds when it ends
pl_resolution(kb_clauses, a, limit, order) ==
    while_it([kbq |-> ResolutionKB(SetArg({CnfClauseArg(c) : c \in kb_clauses})),
              interesting |->
                  add(ResolutionKB(NoneArg),
                      SetArg({CnfClauseArg(c) : c \in parse(to_cnf(Invert(a)))})),
              new |-> ResolutionKB(NoneArg),
              res |-> Unbound,
              it |-> 1,
              shared |-> kb_clauses],
             limit, order)

\* what a call of dpll ends in, with the set previously_seen as it leaves it
Ended(outcome, seen) == [result |-> outcome, seen |-> seen]

RECURSIVE dpll(_, _, _, _, _)
\* dpll(clauses, symbols, model, previously_seen)
dpll(clauses, symbols, model, seen, order) ==
    IF clauses = {} THEN Ended("TypeError", seen)
    ELSE IF all_clauses_true(clauses, model) THEN Ended("True", seen)
    ELSE IF \E clause \in clauses : is_true(clause, model) = "False"
    THEN Ended("False", seen)
    ELSE CHOOSE out \in UNION {
        {IF fp.p # "None" /\ fp.value # "None"
         THEN dpll(clauses, symbols \ {fp.p}, Put(fp.model, fp.p, fp.value),
                   seen, order)
         ELSE IF fu.p # "None" /\ fu.value # "None"
         THEN dpll(clauses, symbols \ {fu.p}, Put(fu.model, fu.p, fu.value),
                   seen \cup {fu.p}, order)
         ELSE IF symbols = {} THEN Ended("KeyError", seen)
         ELSE CHOOSE both \in UNION {
             {IF d1.result # "False" THEN d1
              ELSE dpll(clauses, symbols \ {p}, Put(fu.model, p, "False"),
                        d1.seen, order)
                : d1 \in {dpll(clauses, symbols \ {p}, Put(fu.model, p, "True"),
                               seen, order)}}
                : p \in {First(symbols, order)}} : TRUE
           : fu \in {First(find_unit_clause(clauses, fp.model, seen), order)}}
           : fp \in {First(find_pure_symbol(symbols, clauses, model), order)}}
         : TRUE

\* dpll_satisfiable(s)
dpll_satisfiable(s, order) ==
    dpll(parse(to_cnf(s)), find_clause_symbols(parse(to_cnf(s))), EmptyModel,
         {}, order).result

RECURSIVE reduce_and(_)
\* reduce(lambda x, y: x & y, clauses) of a list that is not empty
reduce_and(clauses) ==
    IF Len(clauses) = 1 THEN clauses[1]
    ELSE AndClause(reduce_and(SubSeq(clauses, 1, Len(clauses) - 1)),
                   clauses[Len(clauses)])

\* DpllKB.query(alpha); reduce() raises on an empty list
DpllKB_query(clauses, a, order) ==
    IF clauses = <<>> THEN "TypeError"
    ELSE dpll_satisfiable(AndClause(reduce_and(clauses), a), order)

\* the formulas added and asked: literals, and a conjunction or disjunction
\* of a literal of each of the two symbols
FrameFormulas ==
    KBLiterals \cup
    {[op |-> o, lhs |-> Variable("A", m), rhs |-> Variable("B", n)] :
        o \in {"AND", "OR"}, m \in BOOLEAN, n \in BOOLEAN}

\* the iteration orders told apart
SetOrders == {0, 1, 2, 3}

\* kb = ResolutionKB() or kb = DpllKB()
InitFrame ==
    /\ pc = "idle"
    /\ result = "none"
    /\ store_class \in {"ResolutionKB", "DpllKB"}
    /\ set_order \in SetOrders
    /\ kb = ResolutionKB(NoneArg)
    /\ added = {}
    /\ models = Assignments(KBSymbols)
    /\ dkb = <<>>
    /\ dput = <<>>
    /\ last_query = [kind |-> "none"]
    /\ QueryIdle
    /\ NoKbUse
    /\ DpllUnused
    /\ StdOpsUnused
    /\ InvertUnused
    /\ UnifyUnused
    /\ HornUnused
    /\ ChainUnused

\* kb.add(c) of a CnfClause c on a ResolutionKB
FrameAddCnfClause ==
    /\ pc = "idle"
    /\ store_class = "ResolutionKB"
    /\ \E c \in KBClauses :
          /\ Cardinality(add(kb, CnfClauseArg(c))) <= MaxKBSize
          /\ kb' = add(kb, CnfClauseArg(c))
          /\ added' = added \cup {c}
    /\ last_query' = [kind |-> "none"]
    /\ UNCHANGED <<pc, result, models, dkb, dput, store_class, set_order,
                   queryVars, cnfVars, resolveVars, dpllVars, invertVars,
                   unifyVars, hornVars, chainVars, std_counter, std_out,
                   op_s1, op_s2, op_out>>

\* kb.add(f) of a formula f: parsed into the set of a ResolutionKB, appended
\* to the list of a DpllKB
FrameAddClause ==
    /\ pc = "idle"
    /\ \E f \in FrameFormulas :
          IF store_class = "ResolutionKB"
          THEN /\ Cardinality(add(kb, ClauseArg(f))) <= MaxKBSize
               /\ kb' = add(kb, ClauseArg(f))
               /\ added' = added \cup ClausesOfArg(ClauseArg(f))
               /\ UNCHANGED <<dkb, dput>>
          ELSE /\ Len(dkb) < MaxListLen
               /\ dkb' = Append(dkb, f)
               /\ dput' = dput \o <<f>>
               /\ UNCHANGED <<kb, added>>
    /\ last_query' = [kind |-> "none"]
    /\ UNCHANGED <<pc, result, models, store_class, set_order,
                   queryVars, cnfVars, resolveVars, dpllVars, invertVars,
                   unifyVars, hornVars, chainVars, std_counter, std_out,
                   op_s1, op_s2, op_out>>

\* kb.query(a), the whole call
FrameQuery ==
    /\ pc = "idle"
    /\ \E a \in FrameFormulas :
          /\ alpha' = a
          /\ IF store_class = "ResolutionKB"
             THEN /\ result' = pl_resolution(kb, a, DefaultMaxit, set_order).result
                  /\ kb' = pl_resolution(kb, a, DefaultMaxit, set_order).shared
             ELSE /\ result' = DpllKB_query(dkb, a, set_order)
                  /\ kb' = kb
    /\ pc' = "done"
    /\ UNCHANGED <<added, models, dkb, dput, last_query, store_class, set_order,
                   maxit, kbq, interesting, new_knowledge, res, pending,
                   added_knowledge, it,
                   cnfVars, resolveVars, dpllVars, invertVars,
                   unifyVars, hornVars, chainVars, std_counter, std_out,
                   op_s1, op_s2, op_out>>

\* the caller has the answer of the query
FrameReturn ==
    /\ pc = "done"
    /\ last_query' = [kind |-> "query", alpha |-> alpha, result |-> result]
    /\ alpha' = NoClause
    /\ result' = "none"
    /\ pc' = "idle"
    /\ UNCHANGED <<storeVars, dkb, dput, store_class, set_order,
                   maxit, kbq, interesting, new_knowledge, res, pending,
                   added_knowledge, it,
                   cnfVars, resolveVars, dpllVars, invertVars,
                   unifyVars, hornVars, chainVars, std_counter, std_out,
                   op_s1, op_s2, op_out>>

NextFrame == FrameAddCnfClause \/ FrameAddClause \/ FrameQuery \/ FrameReturn

SpecFrame == InitFrame /\ [][NextFrame]_vars

---------------------------------------------------------------------------
(* The properties.                                                         *)

C2_ToCnfIsCnf == pc # "start" => InCnf(cnf, FALSE)

\* every assignment satisfying all that was handed to the KB satisfies alpha
KbEntailsAlpha == \A m \in models : Holds(alpha, m)

\* C3: whenever pl_resolution(KB, alpha) returns true, KB entails alpha:
\* every truth assignment satisfying all formulas and clauses added to the
\* KB satisfies alpha (so a call that returns a boolean returns false when
\* KB together with the negation of alpha is satisfiable).
C3_ResolutionSound == (pc = "done" /\ result = "True") => KbEntailsAlpha

\* C4: whenever KB entails alpha and the iteration limit is not exhausted,
\* pl_resolution(KB, alpha) returns true, for every finite KB, an
\* unsatisfiable one included.
C4_ResolutionComplete ==
    (pc = "done" /\ KbEntailsAlpha /\ it <= maxit) => result = "True"

\* C5: pl_resolution returns a boolean and never raises; a tautological
\* resolvent is discarded and the pass goes on with the next pair, also when
\* the first pair of the pass is the tautological one.
C5_ResolutionReturnsBoolean == pc = "done" => result \in {"True", "False"}

\* C6: dpll_satisfiable(F) returns true if and only if some truth
\* assignment to the symbols of F satisfies F.
C6_DpllDecides ==
    pc = "done" =>
        (result = "True" <=> \E m \in Assignments(DpllSymbols) : Holds(phi, m))

\* C7: dpll_satisfiable(F) returns a boolean without raising, and when the
\* CNF clause set of F is empty (every clause a tautology) it returns true.
C7_DpllReturnsBoolean ==
    pc = "done" =>
        /\ result \in {"True", "False"}
        /\ parsed = {} => result = "True"

\* one of the two clauses holds the literal, the other its negation
ResolvePrecondition ==
    \/ literal \in held[1] /\ Invert(literal) \in held[2]
    \/ literal \in held[2] /\ Invert(literal) \in held[1]

\* (the clause holding l minus l) union (the clause holding not-l minus not-l)
Resolvent ==
    IF literal \in held[1]
    THEN (held[1] \ {literal}) \cup (held[2] \ {Invert(literal)})
    ELSE (held[2] \ {literal}) \cup (held[1] \ {Invert(literal)})

\* C8: when one of c1, c2 holds l and the other the negation of l,
\* c1.resolve(c2, l) returns the clause whose literal set is the resolvent
\* (there is such a clause when that set holds no literal with its negation;
\* what happens otherwise is C9's), and after the call c1 and c2 hold exactly
\* the literals they held before.
C8_ResolveReturnsResolvent ==
    (pc = "resolved" /\ ResolvePrecondition) =>
        /\ c1 = held[1]
        /\ c2 = held[2]
        /\ result.kind = "ok" => result.value = Resolvent
        /\ ~IsUseless(Resolvent) => result.kind = "ok"

\* a call under C8's precondition that returned a resolvent of two literals
C8_Witness ==
    /\ pc = "resolved"
    /\ ResolvePrecondition
    /\ result.kind = "ok"
    /\ Cardinality(result.value) = 2
    /\ Cardinality(c1) = 2
    /\ Cardinality(c2) = 2

\* C9: resolve has exactly three outcomes: the resolvent when one operand
\* holds l and the other its negation; UselessCnfClauseException when that
\* resolvent holds a literal and its negation; and CnfResolveError, never
\* another error, in every other case (l and its negation both absent from
\* an operand, or both operands holding the literal with the same polarity).
C9_ResolveThreeOutcomes ==
    pc = "resolved" =>
        IF ResolvePrecondition
        THEN IF IsUseless(Resolvent)
             THEN result.kind = "UselessCnfClauseException"
             ELSE result.kind = "ok" /\ result.value = Resolvent
        ELSE result.kind = "CnfResolveError"

\* C10: after any sequence of add calls on a ResolutionKB, kb.clauses is a
\* set with no clause that holds a literal and its negation, equal to the
\* union of the CnfClauses added and of CnfParser().parse(to_cnf(F)) for the
\* formulas F added; and no add removes a clause already stored.
C10_AddKeepsUnion ==
    /\ [](kb = added /\ \A c \in kb : ~IsUseless(c))
    /\ [][kb \subseteq kb']_vars

\* a KB that got clauses through add, a two-literal clause among them
C10_Witness ==
    /\ pc = "idle"
    /\ Cardinality(kb) >= 2
    /\ kb = added
    /\ \E c \in kb : Cardinality(c) = 2

\* the disjunctive conjuncts of a formula in CNF: the subtrees reached from
\* the root through And nodes only
RECURSIVE Conjuncts(_)
Conjuncts(g) ==
    IF g.op = "AND" THEN Conjuncts(g.lhs) \cup Conjuncts(g.rhs) ELSE {g}

\* the literals at the leaves of a disjunction
RECURSIVE Leaves(_)
Leaves(d) == IF d.op = "VAR" THEN {d} ELSE Leaves(d.lhs) \cup Leaves(d.rhs)

\* C11: for a formula G in CNF, CnfParser().parse(G) returns exactly the
\* literal sets of the disjunctive conjuncts of G, those holding a literal
\* and its negation left out; it returns at most one clause when G has no
\* And at its root; and the conjunction of the returned clauses is
\* logically equivalent to G.
C11_ParseOfCnf ==
    pc = "parsed" =>
        /\ parsed = {Leaves(d) : d \in {e \in Conjuncts(cnf) : ~IsUseless(Leaves(e))}}
        /\ cnf.op # "AND" => Cardinality(parsed) <= 1
        /\ \A m \in Assignments(KBSymbols) :
              (\A c \in parsed : \E l \in c : Holds(l, m)) <=> Holds(cnf, m)

\* a parsed CNF formula with And nodes on both sides of its root, one of
\* whose conjuncts was left out as a tautology
C11_Witness ==
    /\ pc = "parsed"
    /\ cnf.op = "AND"
    /\ cnf.lhs.op = "AND"
    /\ cnf.rhs.op = "OR"
    /\ IsUseless(Leaves(cnf.rhs))
    /\ Cardinality(parsed) = 2

\* the formula has no Cond and no Bicond node
RECURSIVE ArrowFree(_)
ArrowFree(f) ==
    IF f.op = "VAR" THEN TRUE
    ELSE f.op \in {"AND", "OR"} /\ ArrowFree(f.lhs) /\ ArrowFree(f.rhs)

\* C12 as stated: for every formula F of every variant (literal, And, Or,
\* Cond, Bicond), ~(~F) is structurally equal to F.
C12_DoubleNegation == pc = "twice" => twice = phi

\* C12 as amended: for every formula F built from literals with And and Or
\* only, ~(~F) is structurally equal to F; for every formula F, Cond and
\* Bicond included, ~(~F) is logically equivalent to F.
C12_DoubleNegationAndOr ==
    pc = "twice" =>
        /\ ArrowFree(phi) => twice = phi
        /\ \A m \in Assignments(KBSymbols) : Holds(twice, m) <=> Holds(phi, m)

\* a disjunction with a conjunction below it, negated twice
C12_Witness ==
    /\ pc = "twice"
    /\ ArrowFree(phi)
    /\ phi.op = "OR"
    /\ phi.lhs.op = "AND"
    /\ negated # phi
    /\ twice = phi


\* a predicate with the argument list of a unify argument
PredOf(x) == Predicate("P", x.items, FALSE)

\* C13: when unify(x, y, Substitution({})) of two term lists of the same
\* length returns a substitution s, s.substitute of a predicate over x and of
\* a predicate over y have the same argument list.
C13_UnifierMakesEqual ==
    (/\ pc = "unified"
     /\ theta_in = Substitution(EmptyDict)
     /\ unify_x.kind = "list" /\ unify_y.kind = "list"
     /\ Len(unify_x.items) = Len(unify_y.items)
     /\ subst # None)
    => substitute(subst, PredOf(unify_x)).args
         = substitute(subst, PredOf(unify_y)).args

\* what the variables may stand for: the constants and one more individual
Universe == UnifyConstants \cup {Term("other", "CONSTANT")}

\* the individual a term stands for under the valuation v of the variables
ValueOf(v, t) == IF t.type = "CONSTANT" THEN t ELSE v[t]

\* some extension of t makes x and y identical: they have the same shape and
\* some valuation of the variables respects every binding of t and gives the
\* terms of x and y the same values, position by position
Unifiable(x, y, t) ==
    /\ x.kind = y.kind
    /\ x.kind = "list" => Len(x.items) = Len(y.items)
    /\ \E v \in [UnifyVariables -> Universe] :
          /\ \A k \in DOMAIN t.values :
                ValueOf(v, k) = ValueOf(v, t.values[k])
          /\ IF x.kind = "list"
             THEN \A i \in DOMAIN x.items :
                     ValueOf(v, x.items[i]) = ValueOf(v, y.items[i])
             ELSE ValueOf(v, x.term) = ValueOf(v, y.term)

\* s keeps every binding of t
Extends(s, t) ==
    /\ DOMAIN t.values \subseteq DOMAIN s.values
    /\ \A k \in DOMAIN t.values : s.values[k] = t.values[k]

RECURSIVE Walk(_, _, _)
\* the term reached from t by following bindings of theta, n times at most
Walk(theta, t, n) ==
    IF n = 0 \/ t \notin DOMAIN theta.values THEN t
    ELSE Walk(theta, theta.values[t], n - 1)

\* only variables are bound, and following the bindings from any term ends:
\* the lookups of unify_var on theta cannot go on for ever
WellFounded(theta) ==
    /\ \A k \in DOMAIN theta.values : k.type = "VARIABLE"
    /\ \A k \in DOMAIN theta.values :
          Walk(theta, k, Cardinality(DOMAIN theta.values))
              \notin DOMAIN theta.values

\* C14: unify(x, y, t), t empty or returned by earlier calls, ends; it returns
\* None exactly when no extension of t makes x and y identical, and otherwise
\* an extension of t (on which later calls end too); unify(x, y, None) is None.
C14_UnifyDecides ==
    pc = "unified" =>
        /\ theta_in = None => subst = None
        /\ theta_in # None =>
              /\ WellFounded(theta_in)
              /\ subst = None <=> ~Unifiable(unify_x, unify_y, theta_in)
              /\ subst # None => Extends(subst, theta_in) /\ WellFounded(subst)

\* two terms that only the bindings passed in keep apart
C14_Witness ==
    /\ pc = "unified"
    /\ theta_in # None
    /\ unify_x.kind = "Term" /\ unify_y.kind = "Term"
    /\ unify_x.term.type = "VARIABLE"
    /\ Unifiable(unify_x, unify_y, Substitution(EmptyDict))
    /\ subst = None

\* the clause constructed last and the one before it have identical
\* antecedent lists and identical consequents
SameClause == 
    /\ hc.antecedents = hc_other.antecedents
    /\ hc.consequent = hc_other.consequent

\* C15: two HornClauseFOL values are equal if and only if their sorted
\* antecedent lists are identical and their consequents are identical.
C15_HornEquality ==
    pc = "compared" => (equal = "True" <=> SameClause)

\* how often the predicate p occurs in the list l
Occurrences(l, p) == Cardinality({i \in DOMAIN l : l[i] = p})

\* the lists l and m hold the same predicates, each as often
SamePredicates(l, m) ==
    /\ Len(l) = Len(m)
    /\ \A i \in DOMAIN l : Occurrences(l, l[i]) = Occurrences(m, l[i])

\* C20: HornClauseFOL(antecedents, consequent) fails with BadHornClauseFOL on
\* any negated antecedent; one antecedent and no consequent gives consequent
\* True with that antecedent kept; a negated predicate as consequent gives
\* consequent False with its positive form appended to the antecedents; no
\* consequent otherwise gives False; otherwise the consequent is the one given.
C20_HornConstructor ==
    pc = "constructed" =>
        LET a == ctor_antecedents
            c == ctor_consequent
        IN  IF \E i \in DOMAIN a : a[i].neg
            THEN hc.kind = "BadHornClauseFOL"
            ELSE /\ hc.kind = "HornClauseFOL"
                 /\ IF Len(a) = 1 /\ c.kind = "None"
                    THEN /\ hc.consequent = BoolConsequent(TRUE)
                         /\ hc.antecedents = a
                    ELSE IF c.kind = "Predicate" /\ c.pred.neg
                    THEN /\ hc.consequent = BoolConsequent(FALSE)
                         /\ Len(hc.antecedents) = Len(a) + 1
                         /\ hc.antecedents[Len(a) + 1]
                              = Predicate(c.pred.id, c.pred.args, FALSE)
                         /\ SamePredicates(SubSeq(hc.antecedents, 1, Len(a)), a)
                    ELSE /\ SamePredicates(hc.antecedents, a)
                         /\ IF c.kind = "None"
                            THEN hc.consequent = BoolConsequent(FALSE)
                            ELSE hc.consequent = c

\* a negated consequent after two antecedents given out of order
C20_Witness ==
    /\ pc = "constructed"
    /\ Len(ctor_antecedents) = 2
    /\ ctor_antecedents[1].id = "Q" /\ ctor_antecedents[2].id = "P"
    /\ ctor_consequent.kind = "Predicate" /\ ctor_consequent.pred.neg
    /\ hc.kind = "HornClauseFOL"
    /\ Len(hc.antecedents) = 3

\* the variables among the arguments of a list of predicates
VarsOf(preds) ==
    {t \in UNION {{preds[i].args[j] : j \in DOMAIN preds[i].args} :
                     i \in DOMAIN preds} : t.type = "VARIABLE"}

\* the ways of giving each variable of V a constant
Valuations(V) == [V -> ChainConstants]

\* the atom p with its variables replaced as sigma says
Instance(p, sigma) ==
    Predicate(p.id,
              [j \in DOMAIN p.args |->
                  IF p.args[j] \in DOMAIN sigma THEN sigma[p.args[j]]
                  ELSE p.args[j]],
              FALSE)

\* what a clause asserts and from what: a predicate consequent follows from
\* the antecedents; a single antecedent with consequent True is a fact
HeadOf(clause) ==
    IF clause.consequent.kind = "Predicate" THEN <<clause.consequent.pred>>
    ELSE IF clause.consequent = BoolConsequent(TRUE) /\ Len(clause.antecedents) = 1
    THEN clause.antecedents
    ELSE <<>>

BodyOf(clause) ==
    IF clause.consequent.kind = "Predicate" THEN clause.antecedents ELSE <<>>

\* the ground atoms that follow in one step from the ground atoms D
Consequences(clauses, D) ==
    {Instance(HeadOf(clauses[i])[1], sigma) :
        <<i, sigma>> \in
            {<<i, sigma>> \in
                 UNION {{<<n, f>> : f \in Valuations(VarsOf(HeadOf(clauses[n])
                                                     \o BodyOf(clauses[n])))} :
                           n \in {m \in DOMAIN clauses : HeadOf(clauses[m]) # <<>>}} :
                 \A j \in DOMAIN BodyOf(clauses[i]) :
                     Instance(BodyOf(clauses[i])[j], sigma) \in D}}

RECURSIVE DerivableFrom(_, _)
\* the ground atoms derivable from the clauses, starting with D
DerivableFrom(clauses, D) ==
    IF Consequences(clauses, D) \subseteq D THEN D
    ELSE DerivableFrom(clauses, D \cup Consequences(clauses, D))

Derivable(clauses) == DerivableFrom(clauses, {})

\* the goal g with the bindings of theta followed to a fixpoint
Resolved(theta, g) ==
    Predicate(g.id,
              [j \in DOMAIN g.args |->
                  Walk(theta, g.args[j], Cardinality(DOMAIN theta.values))],
              FALSE)

\* theta is an answer: every goal, resolved, is derivable in each of its
\* ground instances
IsAnswer(theta) ==
    \A n \in DOMAIN goals :
        LET g == Resolved(theta, goals[n])
        IN  \A sigma \in Valuations(VarsOf(<<g>>)) :
                Instance(g, sigma) \in Derivable(chain_kb)

\* C16: every substitution returned by fol_bc_ask(KB, goals, Substitution({}))
\* is an answer: with its bindings followed to a fixpoint, each goal is an
\* atom derivable from the KB.
C16_BcAnswersSound ==
    (pc = "asked" /\ answers.kind = "returned")
    => \A n \in DOMAIN answers.list : IsAnswer(answers.list[n])

RECURSIVE SumOf(_, _)
\* the sum of f over the set S
SumOf(S, f) ==
    IF S = {} THEN 0
    ELSE LET e == CHOOSE e \in S : TRUE
         IN  f[e] + SumOf(S \ {e}, f)

RECURSIVE ProductOf(_)
\* the product of a list of numbers
ProductOf(l) == IF l = <<>> THEN 1 ELSE Head(l) * ProductOf(Tail(l))

RECURSIVE Proofs(_, _)
\* the number of proofs of the ground atom from the clauses, none of which
\* is recursive: a clause, an instance of it with the atom as consequent, and
\* a proof of each antecedent of the instance
Proofs(clauses, atom) ==
    LET uses == {u \in UNION {{<<n, f>> : f \in Valuations(VarsOf(HeadOf(clauses[n])
                                                          \o BodyOf(clauses[n])))} :
                                 n \in {m \in DOMAIN clauses : HeadOf(clauses[m]) # <<>>}} :
                    Instance(HeadOf(clauses[u[1]])[1], u[2]) = atom}
    IN  SumOf(uses,
              [u \in uses |->
                  ProductOf([j \in DOMAIN BodyOf(clauses[u[1]]) |->
                                Proofs(clauses, Instance(BodyOf(clauses[u[1]])[j], u[2]))])])

\* the number of proofs of the goal list: a constant for each variable of
\* the goals and a proof of each goal so instantiated
ProofCount(clauses, goal_list) ==
    SumOf(Valuations(VarsOf(goal_list)),
          [sigma \in Valuations(VarsOf(goal_list)) |->
              ProductOf([j \in DOMAIN goal_list |->
                            Proofs(clauses, Instance(goal_list[j], sigma))])])

\* the KB holds facts without antecedents and rules with a predicate consequent
FactsAndRules(clauses) ==
    \A n \in DOMAIN clauses : clauses[n].consequent.kind = "Predicate"

\* C17: for a KB of antecedent-free facts and non-recursive rules whose
\* consequents are predicates, and a goal list derivable from it,
\* fol_bc_ask(KB, goals, Substitution({})) returns a non-empty list that holds
\* one substitution for each proof.
C17_BcOnePerProof ==
    (/\ pc = "asked"
     /\ FactsAndRules(chain_kb)
     /\ ProofCount(chain_kb, goals) > 0)
    => /\ answers.kind = "returned"
       /\ Len(answers.list) > 0
       /\ Len(answers.list) = ProofCount(chain_kb, goals)

\* a pass of the while loop has ended that found no fact that was not known,
\* and the call is at the head of the loop again
BarrenPass == pc = "fc_loop" /\ passes > 0 /\ new_facts = <<>>

\* C18: fol_fc_ask(KB, alpha) ends: once a full pass over the rules produces
\* no fact that is not already known the loop ends (and None is returned), so
\* the call is never back at the head of the loop after such a pass.
C18_FcEndsWhenNothingNew == ~BarrenPass

\* every clause of the KB is a fact or a rule, and some instance of alpha is
\* derivable from them
AlphaDerivable ==
    /\ fc_alpha # [kind |-> "none"]
    /\ \A n \in DOMAIN chain_kb : HeadOf(chain_kb[n]) # <<>>
    /\ \E sigma \in Valuations(VarsOf(<<fc_alpha>>)) :
          Instance(fc_alpha, sigma) \in Derivable(chain_kb)

\* C19: when alpha is derivable from the facts and rules of the KB,
\* fol_fc_ask(KB, alpha) returns a substitution that unifies alpha with a
\* derived fact: the call ends in nothing else, and it is never at the head of
\* the loop after a pass that found nothing new, from where it cannot return.
C19_FcFindsDerivable ==
    AlphaDerivable =>
        /\ ~BarrenPass
        /\ pc = "fc_done" =>
              /\ answers.kind = "returned"
              /\ \A sigma \in Valuations(VarsOf(<<Resolved(answers.list, fc_alpha)>>)) :
                    Instance(Resolved(answers.list, fc_alpha), sigma)
                        \in Derivable(chain_kb)

RECURSIVE Flatten(_)
\* the arguments of a list of predicates, one after another
Flatten(preds) ==
    IF preds = <<>> THEN <<>> ELSE Head(preds).args \o Flatten(Tail(preds))

\* the terms of a clause in the order standardize_variables meets them: those
\* of the antecedents, then those of a predicate consequent
TermsMet(clause) ==
    Flatten(clause.antecedents) \o
        (IF clause.consequent.kind = "Predicate" THEN clause.consequent.pred.args
         ELSE <<>>)

\* the variable identifiers among the first n of the terms
VariableIds(terms, n) ==
    {terms[i].id : i \in {j \in 1..n : terms[j].type = "VARIABLE"}}

\* the number k of the identifier: how many other variable identifiers are
\* met before it is met first
NumberOf(identifier, terms) ==
    LET first == CHOOSE i \in DOMAIN terms :
                     /\ terms[i].type = "VARIABLE" /\ terms[i].id = identifier
                     /\ \A j \in 1..(i - 1) :
                           ~(terms[j].type = "VARIABLE" /\ terms[j].id = identifier)
    IN  Cardinality(VariableIds(terms, first - 1))

\* the predicate with each variable renamed to its identifier followed by
\* the decimal of c plus its number
Renamed(p, terms, c) ==
    Predicate(p.id,
              [j \in DOMAIN p.args |->
                  IF p.args[j].type = "VARIABLE"
                  THEN Term(p.args[j].id
                                \o ToString(c + NumberOf(p.args[j].id, terms)),
                            "VARIABLE")
                  ELSE p.args[j]],
              p.neg)

C22_UnionSecondWins ==
    [][pc = "picked" =>
          /\ op_s1' = op_s1
          /\ op_s2' = op_s2
          /\ DOMAIN op_out' = DOMAIN op_s1 \cup DOMAIN op_s2
          /\ \A k \in DOMAIN op_out' :
                op_out'[k] = IF k \in DOMAIN op_s2 THEN op_s2[k] ELSE op_s1[k]]_vars

\* a composition of two substitutions that bind one key differently
C22_Witness ==
    /\ pc = "composed"
    /\ \E k \in DOMAIN op_s1 \cap DOMAIN op_s2 :
          op_s1[k] # op_s2[k] /\ op_out[k] = op_s2[k]
    /\ DOMAIN op_s1 # DOMAIN op_s2

\* C23: fol_bc_ask returns a list and never raises, whatever well-formed
\* clauses the KB holds, those with a boolean consequent included.
C23_BcNeverRaises == pc = "asked" => answers.kind = "returned"

\* the variables of a clause
ClauseVars(clause) ==
    VarsOf(clause.antecedents \o
               (IF clause.consequent.kind = "Predicate"
                THEN <<clause.consequent.pred>> ELSE <<>>))

\* the terms a substitution binds or binds to
TermsOf(theta) ==
    DOMAIN theta.values \cup {theta.values[k] : k \in DOMAIN theta.values}

\* C24: every use fol_bc_ask makes of a KB clause, at every depth, renames the
\* variables of the clause to names that occur neither in the current
\* substitution nor in the pending goals.
C24_BcRenamesApart ==
    (pc = "asked" /\ answers.kind = "returned")
    => \A use \in bc_uses(chain_kb, 1, 0, goals, Substitution(EmptyDict)) :
           ClauseVars(use.rule) \cap (TermsOf(use.theta) \cup VarsOf(use.goals))
               = {}


\* C25: at every point of fol_fc_ask every predicate of known_facts is ground
\* and derivable from the KB (a rule adds its consequent only when each of
\* its antecedents is a known fact), and a returned substitution makes alpha
\* a predicate all of whose instances are derivable from the KB.
C25_FcKnownFactsSound ==
    pc \in {"fc_loop", "fc_done"} =>
        /\ \A i \in DOMAIN known_facts :
              /\ VarsOf(<<known_facts[i]>>) = {}
              /\ Instance(known_facts[i], <<>>) \in Derivable(chain_kb)
        /\ answers.kind = "returned" =>
              \A sigma \in Valuations(VarsOf(<<Resolved(answers.list, fc_alpha)>>)) :
                  Instance(Resolved(answers.list, fc_alpha), sigma)
                      \in Derivable(chain_kb)


C27_ResolutionTerminates ==
    /\ [](pc \in {"while", "subsume"} =>
             /\ 1 <= it /\ it <= maxit + 1
             /\ pc = "subsume" => it <= maxit
             /\ it - 1 <= Cardinality(interesting)
             /\ interesting \subseteq KBClauses)
    /\ [][/\ (pc \in {"while", "subsume"} /\ pc' \in {"while", "subsume"})
                => interesting \subseteq interesting'
          /\ (pc = "subsume" /\ pc' = "subsume" /\ added_knowledge'
                /\ ~added_knowledge)
                => interesting' # interesting
          /\ (pc = "subsume" /\ pc' = "while")
                => added_knowledge /\ it' = it + 1
          /\ (pc = "subsume" /\ pc' = "done")
                => ~added_knowledge /\ result' = "False"
          /\ (pc = "while" /\ pc' = "done" /\ ~(it <= maxit))
                => result' = "False"
          /\ (pc = "while" /\ pc' = "subsume") => it <= maxit]_vars

\* the limit of two passes is reached: each of the two passes added a clause
\* and the call returned False
C27_Witness ==
    /\ pc = "done" /\ result = "False"
    /\ maxit = 2 /\ it = 3
    /\ Cardinality(interesting) >= 3


\* C28: in pl_resolution a clause goes into the interesting set during a
\* pass only if, when it goes in, no clause of the KB and no clause of the
\* interesting set is a subset of it; and a step of the loop over the new
\* knowledge that leaves the interesting set as it is (the clause had a
\* subset there, itself if it was there already) counts no added knowledge.
C28_AddedOnlyIfNotSubsumed ==
    [][(pc \in {"while", "subsume"} /\ pc' \in {"while", "subsume"}) =>
          /\ \A clause \in interesting' \ interesting :
                \A old_clause \in interesting \cup kbq \cup kb :
                    ~(old_clause \subseteq clause)
          /\ interesting' = interesting => added_knowledge' = added_knowledge
                                           \/ pc = "while"]_vars

\* a pass has examined all its resolvents: it added one of them to the
\* interesting set and refused another
C28_Witness ==
    /\ pc = "subsume" /\ pending = {} /\ added_knowledge
    /\ \E clause \in new_knowledge : clause \in interesting
    /\ \E clause \in new_knowledge : clause \notin interesting


\* the call of dpll at the head of the stack has passed both tests: not
\* every clause is true in its model and none is false
PastBothTests ==
    /\ pc = "dpll" /\ parsed # {}
    /\ ~all_clauses_true(parsed, Head(stack).model)
    /\ ~\E clause \in parsed : is_true(clause, Head(stack).model) = "False"

\* the literals of the clauses whose symbol is among the symbols of the call,
\* has no value in its model, and occurs with this polarity only
PureUnassigned ==
    {l \in UNION parsed :
        /\ l.id \in Head(stack).symbols
        /\ Get(Head(stack).model, l.id) = "None"
        /\ Invert(l) \notin UNION parsed}

\* the value that makes a literal true
Satisfying(l) == IF l.neg THEN "False" ELSE "True"

\* C29: in dpll, when a symbol that has no value yet occurs in the clauses
\* with one polarity only, the call makes one recursive call and no split:
\* its model is the model extended with the value that makes the literal of
\* such a symbol true, and its symbols are the symbols without that symbol.
C29_PureSymbolAssigned ==
    [][(PastBothTests /\ PureUnassigned # {}) =>
          /\ pc' = "dpll"
          /\ Len(stack') = Len(stack)
          /\ \E l \in PureUnassigned :
                /\ Head(stack').symbols = Head(stack).symbols \ {l.id}
                /\ Head(stack').model =
                       Put(Head(stack).model, l.id, Satisfying(l))]_vars


\* the model gives the symbol of the literal the value that makes it false
Falsified(l, model) ==
    Get(model, l.id) = (IF l.neg THEN "True" ELSE "False")

\* the literals that are the one literal left of a clause: the symbol has no
\* value in the model and every other literal of the clause is falsified
UnitLiterals(clauses, model) ==
    {l \in UNION clauses :
        /\ Get(model, l.id) = "None"
        /\ \E c \in clauses :
              l \in c /\ \A k \in c \ {l} : Falsified(k, model)}

\* C30: in a call of dpll that has passed both tests, find_unit_clause
\* reports the symbol of the one literal left of a clause all of whose other
\* literals the model falsifies, and (None, None) when there is no such
\* clause; and when the pure-symbol rule has nothing to assign and there is
\* such a clause, dpll makes one recursive call, with the model extended by
\* the value that makes the literal left true.
C30_UnitClauseAssigned ==
    [][PastBothTests =>
          /\ \A fu \in find_unit_clause(parsed, Head(stack).model,
                                        previously_seen) :
                IF UnitLiterals(parsed, Head(stack).model) = {}
                THEN fu.p = "None" /\ fu.value = "None"
                ELSE \E l \in UnitLiterals(parsed, Head(stack).model) :
                        fu.p = l.id
          /\ (/\ UnitLiterals(parsed, Head(stack).model) # {}
              /\ \A fp \in find_pure_symbol(Head(stack).symbols, parsed,
                                            Head(stack).model) :
                    fp.p = "None")
                => /\ pc' = "dpll"
                   /\ Len(stack') = Len(stack)
                   /\ \E l \in UnitLiterals(parsed, Head(stack).model) :
                         Head(stack').model =
                             Put(Head(stack).model, l.id, Satisfying(l))]_vars

======================================================================
